---- MODULE Spec2Model ----
(***************************************************************************)
(* Model of the code-contest-import scraping / seeding scripts:            *)
(*   seed_problems.py      CodeforcesClient (rate limit, retry/backoff),   *)
(*                         DifficultyMapper                                *)
(*   seed_problems_api.py  DifficultyMapper, main loop, MongoDBClient      *)
(*   seed_leetcode.py      ProblemTransformer, main loop, MongoDBClient    *)
(* Each group of operations has its own specification; the variables of    *)
(* the other groups stay at their idle values.                             *)
(***************************************************************************)
EXTENDS Integers, Sequences, FiniteSets, TLC

VARIABLES
    \* --- DifficultyMapper.map_rating (both copies) ---
    rating,             \* Optional[int]: <<>> is None, <<r>> is the integer r
    difficulty_scraper, \* result of seed_problems.py map_rating, or Unset
    difficulty_api,     \* result of seed_problems_api.py map_rating, or Unset
    \* --- category mappers ---
    tags,               \* list of tag strings
    cat_rating,         \* Optional[int] rating of the problem being transformed
    cf_result,          \* [difficulty, category] of the Codeforces transformer, or CfUnset
    lc_category,        \* result of the LeetCode _map_category, or Unset
    \* --- LeetCode description padding ---
    pad_title, pad_difficulty, pad_content,
    pad_pc,             \* "start" | "loop" | "done"
    full_desc,          \* local of _pad_description
    description,        \* the description stored in problem_data, or Unset
    pad_iters,          \* iterations of the padding loop so far
    \* --- CodeforcesClient (seed_problems.py) ---
    delay_seconds,      \* self.delay_seconds, whole seconds
    max_retries,        \* self.max_retries
    now,                \* time.time(), whole seconds since the clock origin
    last_request_time,  \* self.last_request_time
    fetch_pc,           \* "idle" (no call running) | "request" (at the top of the retry loop)
    attempt,            \* loop variable of _retry_request
    last_exception,     \* local of _retry_request: None or the exception kind
    fetch_result,       \* how the last fetch_problem call ended, or NoResult
    prev_call_end,      \* Optional: time at which the previous call returned or raised
    attempt_log,        \* the attempts of the current call, in order:
                        \*   [kind, status, start, end, sleep]; sleep is the argument
                        \*   of the time.sleep that followed the attempt (0: none)
    rate_sleep,         \* time slept by _rate_limit in the current call
    \* --- seeding main loops and MongoDBClient ---
    script,             \* "codeforces" (seed_problems_api.py) | "leetcode" (seed_leetcode.py)
    dry_run,            \* config.dry_run
    seed_pc,            \* "finished" | "interrupted" | "loop" | "check" | "insert"
    batch_size,         \* len(problems_to_process)
    idx,                \* enumerate index i of the problem in hand (0 before the loop)
    problem_data,       \* the transformed record in hand, or NoRecord
    problems_collection,\* the problems collection: documents in insertion order
    stats,              \* logger.stats counters
    last_event,         \* the last update_stats: [id, status, why, existed]
    inserted_ids,       \* externalIds this script has inserted, over all runs
    rejected,           \* the Codeforces entry the last transform call returned None
                        \*   for, or NoEntry
    \* --- DataValidator.validate (both copies) ---
    val_record, cf_validation, lc_validation,
    \* --- MarkdownConverter (seed_problems.py) ---
    md_fragment, markdown,
    \* --- ProblemParser (seed_problems.py) ---
    html,               \* the page handed to parse, as the regions it is built from
    parse_contest_id, parse_problem_index,
    parse_fault,        \* the exception raised inside an extractor of this call, or NoFault
    parsed,             \* Optional: the record parse returned
    \* --- parse_html_content (scrape_leetcode_complete.py) ---
    content_source, html_content, content_parsed,
    \* --- one run of a seeding script: startup, MongoDBClient.connect, exit ---
    run_script, run_dry, run_pc, run_left, users_collection, oid_counter, system_user_id, db_calls, problem_docs, exit_code, exit_cause, run_passed, run_success,
    \* --- the validation gate of the seeding main loops ---
    gate_script, gate_pc, gate_record, gate_validation, gate_inserted,
    \* --- the per-problem detail loops of the scrapers ---
    scrape_script, scrape_pc, scrape_todo, scrape_count, scrape_limit, in_flight, since_last, last_gap, requests_made, prev_failed,
    \* --- LeetCode ProblemTransformer.transform: test cases and flags ---
    lct_detail, lct_called, lct_result,
    \* --- CodeforcesFetcher.fetch_problems (scrape_codeforces.py) ---
    fp_problems, fp_limit, fp_min_rating, fp_max_rating, fp_tags, fp_pos, fp_fetched, fp_positions, fp_pc

ratingVars == <<rating, difficulty_scraper, difficulty_api>>
catVars    == <<tags, cat_rating, cf_result, lc_category>>
padVars    == <<pad_title, pad_difficulty, pad_content, pad_pc, full_desc,
                description, pad_iters>>
fetchVars  == <<delay_seconds, max_retries, now, last_request_time, fetch_pc,
                attempt, last_exception, fetch_result, prev_call_end,
                attempt_log, rate_sleep>>
seedVars   == <<script, dry_run, seed_pc, batch_size, idx, problem_data,
                problems_collection, stats, last_event, inserted_ids, rejected>>
validateVars == <<val_record, cf_validation, lc_validation>>
markdownVars == <<md_fragment, markdown>>
parseVars == <<html, parse_contest_id, parse_problem_index, parse_fault, parsed>>
segmentVars == <<content_source, html_content, content_parsed>>
runVars == <<run_script, run_dry, run_pc, run_left, users_collection, oid_counter, system_user_id, db_calls, problem_docs, exit_code, exit_cause, run_passed, run_success>>
gateVars == <<gate_script, gate_pc, gate_record, gate_validation, gate_inserted>>
scrapeVars == <<scrape_script, scrape_pc, scrape_todo, scrape_count, scrape_limit, in_flight, since_last, last_gap, requests_made, prev_failed>>
lctVars == <<lct_detail, lct_called, lct_result>>
fpVars == <<fp_problems, fp_limit, fp_min_rating, fp_max_rating, fp_tags, fp_pos, fp_fetched, fp_positions, fp_pc>>
vars       == <<ratingVars, catVars, padVars, fetchVars, seedVars,
                validateVars,
                markdownVars,
                parseVars,
                segmentVars,
                runVars,
                gateVars,
                scrapeVars,
                lctVars,
                fpVars>>

notRatingVars == <<catVars, padVars, fetchVars, seedVars,
                   validateVars,
                   markdownVars,
                   parseVars,
                   segmentVars,
                   runVars,
                   gateVars,
                   scrapeVars,
                   lctVars,
                   fpVars>>
notCatVars    == <<ratingVars, padVars, fetchVars, seedVars,
                   validateVars,
                   markdownVars,
                   parseVars,
                   segmentVars,
                   runVars,
                   gateVars,
                   scrapeVars,
                   lctVars,
                   fpVars>>
notPadVars    == <<ratingVars, catVars, fetchVars, seedVars,
                   validateVars,
                   markdownVars,
                   parseVars,
                   segmentVars,
                   runVars,
                   gateVars,
                   scrapeVars,
                   lctVars,
                   fpVars>>
notFetchVars  == <<ratingVars, catVars, padVars, seedVars,
                   validateVars,
                   markdownVars,
                   parseVars,
                   segmentVars,
                   runVars,
                   gateVars,
                   scrapeVars,
                   lctVars,
                   fpVars>>
notSeedVars   == <<ratingVars, catVars, padVars, fetchVars,
                   validateVars,
                   markdownVars,
                   parseVars,
                   segmentVars,
                   runVars,
                   gateVars,
                   scrapeVars,
                   lctVars,
                   fpVars>>
notValidateVars == <<ratingVars, catVars, padVars, fetchVars, seedVars,
                   markdownVars,
                   parseVars,
                   segmentVars,
                   runVars,
                   gateVars,
                   scrapeVars,
                   lctVars,
                   fpVars>>
notMarkdownVars == <<ratingVars, catVars, padVars, fetchVars, seedVars, validateVars,
                   parseVars,
                   segmentVars,
                   runVars,
                   gateVars,
                   scrapeVars,
                   lctVars,
                   fpVars>>
notParseVars == <<ratingVars, catVars, padVars, fetchVars, seedVars, validateVars, markdownVars,
                   segmentVars,
                   runVars,
                   gateVars,
                   scrapeVars,
                   lctVars,
                   fpVars>>
notSegmentVars == <<ratingVars, catVars, padVars, fetchVars, seedVars, validateVars, markdownVars, parseVars,
                   runVars,
                   gateVars,
                   scrapeVars,
                   lctVars,
                   fpVars>>
notRunVars == <<ratingVars, catVars, padVars, fetchVars, seedVars, validateVars, markdownVars, parseVars, segmentVars,
                   gateVars,
                   scrapeVars,
                   lctVars,
                   fpVars>>
notGateVars == <<ratingVars, catVars, padVars, fetchVars, seedVars, validateVars, markdownVars, parseVars, segmentVars, runVars,
                   scrapeVars,
                   lctVars,
                   fpVars>>
notScrapeVars == <<ratingVars, catVars, padVars, fetchVars, seedVars, validateVars, markdownVars, parseVars, segmentVars, runVars, gateVars,
                   lctVars,
                   fpVars>>
notLctVars == <<ratingVars, catVars, padVars, fetchVars, seedVars, validateVars, markdownVars, parseVars, segmentVars, runVars, gateVars, scrapeVars,
                   fpVars>>
notFpVars == <<ratingVars, catVars, padVars, fetchVars, seedVars, validateVars, markdownVars, parseVars, segmentVars, runVars, gateVars, scrapeVars, lctVars>>

Unset == "<unset>"
None  == <<>>
Some(x) == <<x>>

-----------------------------------------------------------------------------
(* Bounds of the model *)
MaxRating     == 1700   \* ratings 0..MaxRating (and None) are enumerated
MaxTags       == 2      \* longest tag list
MaxContentLen == 505    \* longest converted description text
MaxDelay      == 2      \* delay_seconds ranges over 1..MaxDelay
MaxRetries    == 3      \* max_retries ranges over 1..MaxRetries
MaxBatch      == 2      \* problems per run
MaxGap        == 1      \* the caller spends 0..MaxGap seconds between two calls
MaxBlocks     == 2      \* top-level blocks of a converted HTML fragment
MaxSamples    == 2      \* input blocks, and output blocks, of a sample test
MaxExamples   == 2      \* example blocks of a LeetCode content

-----------------------------------------------------------------------------
(* String helpers: str.lower(), str.capitalize() on ASCII text *)

UpperToLower ==
    [c \in {"A","B","C","D","E","F","G","H","I","J","K","L","M","N","O","P","Q",
            "R","S","T","U","V","W","X","Y","Z"} |->
        CASE c = "A" -> "a" [] c = "B" -> "b" [] c = "C" -> "c" [] c = "D" -> "d"
          [] c = "E" -> "e" [] c = "F" -> "f" [] c = "G" -> "g" [] c = "H" -> "h"
          [] c = "I" -> "i" [] c = "J" -> "j" [] c = "K" -> "k" [] c = "L" -> "l"
          [] c = "M" -> "m" [] c = "N" -> "n" [] c = "O" -> "o" [] c = "P" -> "p"
          [] c = "Q" -> "q" [] c = "R" -> "r" [] c = "S" -> "s" [] c = "T" -> "t"
          [] c = "U" -> "u" [] c = "V" -> "v" [] c = "W" -> "w" [] c = "X" -> "x"
          [] c = "Y" -> "y" [] c = "Z" -> "z"]

LowerChar(c) == IF c \in DOMAIN UpperToLower THEN UpperToLower[c] ELSE c

UpperChar(c) ==
    IF \E u \in DOMAIN UpperToLower : UpperToLower[u] = c
    THEN CHOOSE u \in DOMAIN UpperToLower : UpperToLower[u] = c
    ELSE c

RECURSIVE Lower(_)
Lower(s) ==
    IF Len(s) = 0 THEN ""
    ELSE IF Len(s) = 1 THEN LowerChar(s)
    ELSE LET half == Len(s) \div 2
         IN  Lower(SubSeq(s, 1, half)) \o Lower(SubSeq(s, half + 1, Len(s)))

Capitalize(s) ==
    IF Len(s) = 0 THEN ""
    ELSE UpperChar(SubSeq(s, 1, 1)) \o Lower(SubSeq(s, 2, Len(s)))

\* s repeated n times
RECURSIVE Repeat(_, _)
Repeat(s, n) ==
    IF n = 0 THEN ""
    ELSE IF n % 2 = 1 THEN s \o Repeat(s, n - 1)
    ELSE LET h == Repeat(s, n \div 2) IN h \o h

\* [t.lower() for t in tags]
LowerAll(ts) == [i \in 1..Len(ts) |-> Lower(ts[i])]

\* any(t in tag_lower for t in keywords): whole-tag list membership
AnyIn(keywords, tag_lower) ==
    \E k \in keywords : \E i \in 1..Len(tag_lower) : tag_lower[i] = k

-----------------------------------------------------------------------------
(* DifficultyMapper.map_rating, seed_problems.py *)

map_rating_off_by_one(r) ==
    IF r = None THEN "medium"
    ELSE IF r[1] < 1200 THEN "easy"
    ELSE IF r[1] < 1600 THEN "medium"
    ELSE "hard"

map_rating_scraper(r) ==
    IF r = None THEN "medium"
    ELSE IF r[1] < 1200 THEN "easy"
    ELSE IF r[1] <= 1600 THEN "medium"
    ELSE "hard"

(* DifficultyMapper.map_rating, seed_problems_api.py *)
map_rating_api(r) ==
    IF r = None THEN "medium"
    ELSE IF r[1] < 1200 THEN "easy"
    ELSE IF r[1] <= 1600 THEN "medium"
    ELSE "hard"

Ratings == {None} \cup {Some(r) : r \in 0..MaxRating}

RatingIdle ==
    /\ rating = None
    /\ difficulty_scraper = Unset
    /\ difficulty_api = Unset

RatingInit ==
    /\ rating \in Ratings
    /\ difficulty_scraper = Unset
    /\ difficulty_api = Unset

\* seed_problems.py main: difficulty = DifficultyMapper.map_rating(...)
MapRatingScraper ==
    /\ difficulty_scraper = Unset
    /\ difficulty_scraper' = map_rating_scraper(rating)
    /\ UNCHANGED <<rating, difficulty_api, notRatingVars>>

\* seed_problems_api.py transform: difficulty = DifficultyMapper.map_rating(rating)
MapRatingApi ==
    /\ difficulty_api = Unset
    /\ difficulty_api' = map_rating_api(rating)
    /\ UNCHANGED <<rating, difficulty_scraper, notRatingVars>>

-----------------------------------------------------------------------------
(* Category mappers *)

\* DifficultyMapper.get_category_from_tags with the first two branches swapped
get_category_graph_first(ts) ==
    LET tag_lower == LowerAll(ts) IN
    IF AnyIn({"graph", "trees", "dfs", "bfs"}, tag_lower) THEN "Graph Theory"
    ELSE IF AnyIn({"dp", "dynamic programming"}, tag_lower) THEN "Dynamic Programming"
    ELSE IF AnyIn({"data structures", "dsu", "segment tree"}, tag_lower) THEN "Data Structure"
    ELSE IF AnyIn({"math", "number theory", "combinatorics"}, tag_lower) THEN "Mathematics"
    ELSE IF AnyIn({"strings", "string"}, tag_lower) THEN "String Processing"
    ELSE "Algorithm"

\* DifficultyMapper.get_category_from_tags, seed_problems_api.py
get_category_from_tags(ts) ==
    LET tag_lower == LowerAll(ts) IN
    IF AnyIn({"dp", "dynamic programming"}, tag_lower) THEN "Dynamic Programming"
    ELSE IF AnyIn({"graph", "trees", "dfs", "bfs"}, tag_lower) THEN "Graph Theory"
    ELSE IF AnyIn({"data structures", "dsu", "segment tree"}, tag_lower) THEN "Data Structure"
    ELSE IF AnyIn({"math", "number theory", "combinatorics"}, tag_lower) THEN "Mathematics"
    ELSE IF AnyIn({"strings", "string"}, tag_lower) THEN "String Processing"
    ELSE "Algorithm"

\* ProblemTransformer._map_category without the 'math' keyword
map_category_no_math(ts) ==
    LET tag_lower == LowerAll(ts) IN
    IF AnyIn({"dynamic programming", "dp"}, tag_lower) THEN "Dynamic Programming"
    ELSE IF AnyIn({"graph", "tree", "dfs", "bfs"}, tag_lower) THEN "Graph Theory"
    ELSE IF AnyIn({"array", "hash table", "stack", "queue"}, tag_lower) THEN "Data Structure"
    ELSE IF AnyIn({"geometry"}, tag_lower) THEN "Mathematics"
    ELSE IF AnyIn({"string"}, tag_lower) THEN "String Processing"
    ELSE "Algorithm"

\* ProblemTransformer._map_category, seed_leetcode.py
map_category(ts) ==
    LET tag_lower == LowerAll(ts) IN
    IF AnyIn({"dynamic programming", "dp"}, tag_lower) THEN "Dynamic Programming"
    ELSE IF AnyIn({"graph", "tree", "dfs", "bfs"}, tag_lower) THEN "Graph Theory"
    ELSE IF AnyIn({"array", "hash table", "stack", "queue"}, tag_lower) THEN "Data Structure"
    ELSE IF AnyIn({"math", "geometry"}, tag_lower) THEN "Mathematics"
    ELSE IF AnyIn({"string"}, tag_lower) THEN "String Processing"
    ELSE "Algorithm"

\* The ordered keyword lists of the two if/elif chains
CodeforcesRules ==
    << [keys |-> {"dp", "dynamic programming"},                category |-> "Dynamic Programming"],
       [keys |-> {"graph", "trees", "dfs", "bfs"},             category |-> "Graph Theory"],
       [keys |-> {"data structures", "dsu", "segment tree"},   category |-> "Data Structure"],
       [keys |-> {"math", "number theory", "combinatorics"},   category |-> "Mathematics"],
       [keys |-> {"strings", "string"},                        category |-> "String Processing"] >>

LeetCodeRules ==
    << [keys |-> {"dynamic programming", "dp"},                category |-> "Dynamic Programming"],
       [keys |-> {"graph", "tree", "dfs", "bfs"},              category |-> "Graph Theory"],
       [keys |-> {"array", "hash table", "stack", "queue"},    category |-> "Data Structure"],
       [keys |-> {"math", "geometry"},                         category |-> "Mathematics"],
       [keys |-> {"string"},                                   category |-> "String Processing"] >>

\* Tag texts the sources deliver: every keyword of either table, letter-case
\* variants, and tags that only contain a keyword
TagVocabulary ==
    {"dp", "DP", "Dynamic Programming", "graph", "Graph", "graphs", "tree", "Tree",
     "trees", "binary tree", "dfs", "bfs", "array", "hash table", "stack", "queue",
     "data structures", "dsu", "segment tree", "math", "Math", "geometry",
     "number theory", "combinatorics", "string", "strings", "String", "greedy"}

TagLists == UNION {[1..n -> TagVocabulary] : n \in 0..MaxTags}

CatRatings == {None, Some(1199), Some(1200), Some(1600), Some(1601)}

CfUnset == [difficulty |-> Unset, category |-> Unset]

CatIdle ==
    /\ tags = <<>>
    /\ cat_rating = None
    /\ cf_result = CfUnset
    /\ lc_category = Unset

CatInit ==
    /\ tags \in TagLists
    /\ cat_rating \in CatRatings
    /\ cf_result = CfUnset
    /\ lc_category = Unset

\* seed_problems_api.py ProblemTransformer.transform: the difficulty and
\* category of the record built for a PROGRAMMING problem with an id
TransformCodeforces ==
    /\ cf_result = CfUnset
    /\ cf_result' = [difficulty |-> map_rating_api(cat_rating),
                     category   |-> get_category_from_tags(tags)]
    /\ UNCHANGED <<tags, cat_rating, lc_category, notCatVars>>

\* seed_leetcode.py ProblemTransformer.transform: category = self._map_category(tags)
MapCategoryLeetCode ==
    /\ lc_category = Unset
    /\ lc_category' = map_category(tags)
    /\ UNCHANGED <<tags, cat_rating, cf_result, notCatVars>>

-----------------------------------------------------------------------------
(* LeetCode ProblemTransformer: minimum description length *)

MinDescLen == 500

PadHeader(title, difficulty) ==
    "# " \o title \o "\n\n"
    \o "**Difficulty**: " \o Capitalize(difficulty) \o "\n\n"
    \o "**Source**: LeetCode\n\n"
    \o "## Problem Statement\n\n"

PadFooter ==
    "\n\n## Notes\n\n"
    \o "This problem was imported from LeetCode. "
    \o "For the most up-to-date version and additional test cases, "
    \o "please visit the problem on LeetCode."

PadFiller ==
    "\n\nThis is a programming challenge that tests your problem-solving skills."

\* the guard of transform: pad only when len(description) < 500
NeedsPaddingOffByOne(desc) == Len(desc) <= MinDescLen
NeedsPadding(desc) == Len(desc) < MinDescLen

\* full_desc = header + desc + footer
PadWrap(desc, title, difficulty) ==
    PadHeader(title, difficulty) \o desc \o PadFooter

\* while len(full_desc) < 500
PadLoopGuard(fd) == Len(fd) < MinDescLen

PadTitles == {"", "Two Sum", "Longest Substring Without Repeating Characters"}
PadDifficulties == {"Easy", "Medium", "Hard"}

PadIdle ==
    /\ pad_title = ""
    /\ pad_difficulty = "easy"
    /\ pad_content = ""
    /\ pad_pc = "done"
    /\ full_desc = ""
    /\ description = Unset
    /\ pad_iters = 0

PadInit ==
    /\ pad_title \in PadTitles
    /\ \E d \in PadDifficulties : pad_difficulty = Lower(d)
    /\ \E n \in 0..MaxContentLen : pad_content = Repeat("x", n)
    /\ pad_pc = "start"
    /\ full_desc = ""
    /\ description = Unset
    /\ pad_iters = 0

\* transform, len(description) >= 500: the converted text is stored as it is
TransformKeep ==
    /\ pad_pc = "start"
    /\ ~NeedsPadding(pad_content)
    /\ description' = pad_content
    /\ pad_pc' = "done"
    /\ UNCHANGED <<pad_title, pad_difficulty, pad_content, full_desc, pad_iters,
                   notPadVars>>

\* transform, len(description) < 500: enter _pad_description, build full_desc
PadEnter ==
    /\ pad_pc = "start"
    /\ NeedsPadding(pad_content)
    /\ full_desc' = PadWrap(pad_content, pad_title, pad_difficulty)
    /\ pad_pc' = "loop"
    /\ UNCHANGED <<pad_title, pad_difficulty, pad_content, description, pad_iters,
                   notPadVars>>

\* one iteration of the while loop of _pad_description
PadLoop ==
    /\ pad_pc = "loop"
    /\ PadLoopGuard(full_desc)
    /\ full_desc' = full_desc \o PadFiller
    /\ pad_iters' = pad_iters + 1
    /\ UNCHANGED <<pad_title, pad_difficulty, pad_content, pad_pc, description,
                   notPadVars>>

\* loop exit: return full_desc, stored as the description
PadReturn ==
    /\ pad_pc = "loop"
    /\ ~PadLoopGuard(full_desc)
    /\ description' = full_desc
    /\ pad_pc' = "done"
    /\ UNCHANGED <<pad_title, pad_difficulty, pad_content, full_desc, pad_iters,
                   notPadVars>>

-----------------------------------------------------------------------------
(* CodeforcesClient, seed_problems.py: _rate_limit, _retry_request,        *)
(* fetch_problem.  Time is counted in whole seconds; time.sleep(x) takes x. *)

NoException == "None"
NoResult    == [kind |-> "none", error |-> "", cause |-> NoException]

RECURSIVE Pow2(_)
Pow2(k) == IF k = 0 THEN 1 ELSE 2 * Pow2(k - 1)

\* (2 ** attempt) * self.delay_seconds
BackoffLinear(k, delay) == (k + 1) * delay
Backoff(k, delay) == Pow2(k) * delay

\* _rate_limit: the time it sleeps, given time.time() and last_request_time
RateLimitSleep(current_time, last, delay) ==
    LET time_since_last == current_time - last IN
    IF time_since_last < delay THEN delay - time_since_last ELSE 0

\* what _retry_request does with a response of the given status code
StatusActionNo404(status) ==
    IF status = 429 THEN "backoff"
    ELSE IF status >= 500 THEN "backoff"
    ELSE IF status >= 400 THEN "http_error"
    ELSE "return"

StatusAction(status) ==
    IF status = 429 THEN "backoff"
    ELSE IF status = 404 THEN "not_found"
    ELSE IF status >= 500 THEN "backoff"
    ELSE IF status >= 400 THEN "http_error"    \* response.raise_for_status()
    ELSE "return"

\* the generic RequestException handler sleeps only before another attempt
SleepsAfterRequestErrorAlways(k, retries) == TRUE
SleepsAfterRequestError(k, retries) == k < retries - 1

Statuses == {200, 403, 404, 429, 500}

\* seconds an HTTP request takes
Latencies == {0, 1}

FetchIdle ==
    /\ delay_seconds = 1
    /\ max_retries = 1
    /\ now = 0
    /\ last_request_time = 0
    /\ fetch_pc = "closed"
    /\ attempt = 0
    /\ last_exception = NoException
    /\ fetch_result = NoResult
    /\ prev_call_end = None
    /\ attempt_log = <<>>
    /\ rate_sleep = 0

\* Only differences of clock readings are ever used, so the origin of the
\* clock is free: readings are taken relative to an origin that lies Epoch
\* seconds before the moment the running call stamped last_request_time.
Epoch == MaxDelay + MaxGap

\* CodeforcesClient.__init__; Config.validate admits delay_seconds >= 1 and
\* max_retries >= 1.  The wall clock is further from 0 than any admitted
\* delay, so the first call never sleeps in _rate_limit.
FetchInit ==
    /\ delay_seconds \in 1..MaxDelay
    /\ max_retries \in 1..MaxRetries
    /\ now = Epoch
    /\ last_request_time = 0
    /\ fetch_pc = "idle"
    /\ attempt = 0
    /\ last_exception = NoException
    /\ fetch_result = NoResult
    /\ prev_call_end = None
    /\ attempt_log = <<>>
    /\ rate_sleep = 0

\* fetch_problem up to the call of _retry_request: _rate_limit, then the
\* retry loop starts with attempt 0
FetchProblem ==
    /\ fetch_pc = "idle"
    /\ \E gap \in 0..MaxGap :
        LET current_time == now + gap
            sleep_time == RateLimitSleep(current_time, last_request_time, delay_seconds)
            stamp == current_time + sleep_time      \* self.last_request_time = time.time()
            shift == stamp - Epoch                  \* move the clock origin
        IN  /\ now' = stamp - shift
            /\ last_request_time' = stamp - shift
            /\ prev_call_end' = IF prev_call_end = None THEN None
                                ELSE Some(prev_call_end[1] - shift)
            /\ rate_sleep' = sleep_time
    /\ fetch_pc' = "request"
    /\ attempt' = 0
    /\ last_exception' = NoException
    /\ fetch_result' = NoResult
    /\ attempt_log' = <<>>
    /\ UNCHANGED <<delay_seconds, max_retries, notFetchVars>>

\* for attempt in range(self.max_retries)
InLoopOneMore == fetch_pc = "request" /\ attempt <= max_retries
InLoop == fetch_pc = "request" /\ attempt < max_retries

LogEntry(kind, status, latency, sleep) ==
    [kind |-> kind, status |-> status, start |-> now, end |-> now + latency,
     sleep |-> sleep]

\* an iteration that ends in a sleep (if any) and goes round the loop
Retry(kind, status, latency, sleep, exc) ==
    /\ attempt_log' = Append(attempt_log, LogEntry(kind, status, latency, sleep))
    /\ now' = now + latency + sleep
    /\ attempt' = attempt + 1
    /\ last_exception' = exc
    /\ UNCHANGED <<delay_seconds, max_retries, last_request_time, fetch_pc,
                   fetch_result, prev_call_end, rate_sleep, notFetchVars>>

\* an iteration that leaves _retry_request, and with it fetch_problem
Leave(kind, status, latency, result) ==
    /\ attempt_log' = Append(attempt_log, LogEntry(kind, status, latency, 0))
    /\ now' = now + latency
    /\ fetch_result' = result
    /\ fetch_pc' = "idle"
    /\ prev_call_end' = Some(now + latency)
    /\ UNCHANGED <<delay_seconds, max_retries, last_request_time, attempt,
                   last_exception, rate_sleep, notFetchVars>>

\* status 429, or status >= 500: sleep (2 ** attempt) * delay_seconds, continue
AttemptBackoffStatus ==
    /\ InLoop
    /\ \E status \in Statuses, latency \in Latencies :
        /\ StatusAction(status) = "backoff"
        /\ Retry("status", status, latency, Backoff(attempt, delay_seconds),
                 last_exception)

\* status 404: raise Exception("Problem not found (404)"), which no handler
\* of the loop catches
AttemptNotFound ==
    /\ InLoop
    /\ \E status \in Statuses, latency \in Latencies :
        /\ StatusAction(status) = "not_found"
        /\ Leave("status", status, latency,
                 [kind |-> "raised", error |-> "not_found", cause |-> NoException])

\* any other status >= 400: raise_for_status raises HTTPError, a
\* RequestException, handled by the last handler
AttemptHttpError ==
    /\ InLoop
    /\ \E status \in Statuses, latency \in Latencies :
        /\ StatusAction(status) = "http_error"
        /\ Retry("status", status, latency,
                 IF SleepsAfterRequestError(attempt, max_retries)
                 THEN Backoff(attempt, delay_seconds) ELSE 0,
                 "RequestException")

\* success: return response
AttemptSuccess ==
    /\ InLoop
    /\ \E status \in Statuses, latency \in Latencies :
        /\ StatusAction(status) = "return"
        /\ Leave("status", status, latency,
                 [kind |-> "returned", error |-> "", cause |-> NoException])

\* except requests.exceptions.Timeout
AttemptTimeout ==
    /\ InLoop
    /\ \E latency \in Latencies :
        Retry("Timeout", 0, latency, Backoff(attempt, delay_seconds), "Timeout")

\* except requests.exceptions.ConnectionError
AttemptConnectionError ==
    /\ InLoop
    /\ \E latency \in Latencies :
        Retry("ConnectionError", 0, latency, Backoff(attempt, delay_seconds),
              "ConnectionError")

\* except requests.exceptions.RequestException (any other request failure)
AttemptRequestException ==
    /\ InLoop
    /\ \E latency \in Latencies :
        Retry("RequestException", 0, latency,
              IF SleepsAfterRequestError(attempt, max_retries)
              THEN Backoff(attempt, delay_seconds) ELSE 0,
              "RequestException")

\* the loop ran out: raise Exception(f"Failed after ... attempts: {last_exception}")
Exhausted ==
    /\ fetch_pc = "request"
    /\ attempt >= max_retries
    /\ fetch_result' = [kind |-> "raised", error |-> "exhausted",
                        cause |-> last_exception]
    /\ fetch_pc' = "idle"
    /\ prev_call_end' = Some(now)
    /\ UNCHANGED <<delay_seconds, max_retries, now, last_request_time, attempt,
                   last_exception, attempt_log, rate_sleep, notFetchVars>>

-----------------------------------------------------------------------------
(* Seeding main loops and MongoDBClient *)

(* seed_problems_api.py and seed_leetcode.py share the problems collection *)
(* of one database.  The collection has a unique index on externalId:      *)
(* insert_one raises DuplicateKeyError when a document with the same       *)
(* externalId is stored.                                                   *)

NoRecord == [externalId |-> "", title |-> ""]
NoEvent  == [id |-> "", status |-> "", why |-> "", existed |-> FALSE]
ZeroStats == [total |-> 0, success |-> 0, failed |-> 0, skipped |-> 0]

Scripts == {"codeforces", "leetcode"}

\* externalId values: f"{contest_id}{index}" and f"leetcode_{questionFrontendId}"
ExternalIdsOf(sc) == IF sc = "codeforces" THEN {"1A", "2B"} ELSE {"leetcode_1"}
ExternalIds == UNION {ExternalIdsOf(sc) : sc \in Scripts}
Titles == {"Theatre Square", "Two Sum"}

\* ScraperLogger.update_stats
update_stats_skipped_dropped(st, status) ==
    [total   |-> st.total + 1,
     success |-> st.success + (IF status = "success" THEN 1 ELSE 0),
     failed  |-> st.failed + (IF status = "failed" THEN 1 ELSE 0),
     skipped |-> st.skipped]

update_stats(st, status) ==
    [total   |-> st.total + 1,
     success |-> st.success + (IF status = "success" THEN 1 ELSE 0),
     failed  |-> st.failed + (IF status = "failed" THEN 1 ELSE 0),
     skipped |-> st.skipped + (IF status = "skipped" THEN 1 ELSE 0)]

\* find_one({'externalId': external_id}) is not None
Stored(coll, external_id) ==
    \E k \in 1..Len(coll) : coll[k].externalId = external_id

problem_exists_never(external_id) == FALSE
problem_exists(external_id) == Stored(problems_collection, external_id)

\* a problem dict of the Codeforces API; a key the dict lacks is None.
\* rating_ok is FALSE for a rating that is not a number: map_rating raises.
NoEntry == [type |-> None, contestId |-> None, index |-> None, rating_ok |-> TRUE,
            name |-> ""]

CodeforcesEntries ==
    {e \in [type : {None, Some("PROGRAMMING"), Some("QUESTION")},
            contestId : {None, Some(1), Some(2)},
            index : {None, Some("A"), Some("B")},
            rating_ok : BOOLEAN,
            name : Titles] :
        LET has_id == e.contestId # None /\ e.index # None
            plain == e.type = Some("PROGRAMMING") /\ has_id
        IN  /\ e.contestId = Some(2) <=> e.index = Some("B")
            /\ e.type # Some("PROGRAMMING") => has_id
            /\ e.contestId = Some(2) => plain /\ e.rating_ok
            /\ ~e.rating_ok => plain
            /\ e.name # "Theatre Square" => plain /\ e.rating_ok}

\* ProblemTransformer.transform, seed_problems_api.py: None or Some(problem_data)
transform(problem) ==
    LET contest_id == problem.contestId
        index == problem.index
        problem_type == IF problem.type = None THEN "PROGRAMMING" ELSE problem.type[1]
        has_id == /\ contest_id # None /\ contest_id[1] # 0
                  /\ index # None /\ index[1] # ""
    IN  IF problem_type # "PROGRAMMING" THEN None
        ELSE IF ~has_id THEN None
        ELSE IF ~problem.rating_ok THEN None    \* except Exception: return None
        ELSE Some([externalId |-> ToString(contest_id[1]) \o index[1],
                   title |-> problem.name])

\* the entries transform returns None for, and the records it returns
TransformRejects == {e \in CodeforcesEntries : transform(e) = None}
TransformReturns == {transform(e)[1] : e \in CodeforcesEntries \ TransformRejects}

\* the status main tallies when transform returns None
TransformNoneStatusFailed(sc) == "failed"
TransformNoneStatus(sc) == IF sc = "codeforces" THEN "skipped" ELSE "failed"

\* the status main tallies when insert_problem returns None
InsertNoneStatus == "failed"

SeedIdle ==
    /\ script = "codeforces"
    /\ dry_run = FALSE
    /\ seed_pc = "closed"
    /\ batch_size = 0
    /\ idx = 0
    /\ problem_data = NoRecord
    /\ problems_collection = <<>>
    /\ stats = ZeroStats
    /\ last_event = NoEvent
    /\ inserted_ids = {}
    /\ rejected = NoEntry

SeedInit ==
    /\ script = "codeforces"
    /\ dry_run = FALSE
    /\ seed_pc = "finished"
    /\ batch_size = 0
    /\ idx = 0
    /\ problem_data = NoRecord
    /\ problems_collection = <<>>
    /\ stats = ZeroStats
    /\ last_event = NoEvent
    /\ inserted_ids = {}
    /\ rejected = NoEntry

\* main up to the loop: a new process with a fresh logger, a fetched list of
\* batch_size problems (the LeetCode script exits on an empty list)
StartRun ==
    /\ seed_pc \in {"finished", "interrupted"}
    /\ \E sc \in Scripts, dr \in BOOLEAN, n \in 0..MaxBatch :
        /\ sc = "leetcode" => n >= 1
        /\ script' = sc
        /\ dry_run' = dr
        /\ batch_size' = n
    /\ idx' = 0
    /\ stats' = ZeroStats
    /\ last_event' = NoEvent
    /\ problem_data' = NoRecord
    /\ rejected' = NoEntry
    /\ seed_pc' = "loop"
    /\ UNCHANGED <<problems_collection, inserted_ids, notSeedVars>>

AtProblem == seed_pc = "loop" /\ idx < batch_size

\* logger.update_stats(status); continue  (or the end of the loop body)
Tally(id, status, why, existed) ==
    /\ stats' = update_stats(stats, status)
    /\ last_event' = [id |-> id, status |-> status, why |-> why, existed |-> existed]
    /\ seed_pc' = "loop"
    /\ problem_data' = NoRecord
    /\ rejected' = NoEntry

\* seed_leetcode.py: fetch_problem_detail returned None
DetailMissing ==
    /\ AtProblem
    /\ script = "leetcode"
    /\ idx' = idx + 1
    /\ Tally("", "failed", "no_detail", FALSE)
    /\ UNCHANGED <<script, dry_run, batch_size, problems_collection, inserted_ids,
                   notSeedVars>>

\* problem_data = transformer.transform(...); if not problem_data:
\* update_stats(...); continue
TransformNone ==
    /\ AtProblem
    /\ idx' = idx + 1
    /\ \E problem \in IF script = "codeforces" THEN TransformRejects ELSE {NoEntry} :
        rejected' = problem
    /\ stats' = update_stats(stats, TransformNoneStatus(script))
    /\ last_event' = [id |-> "", status |-> TransformNoneStatus(script),
                      why |-> "transform_none", existed |-> FALSE]
    /\ seed_pc' = "loop"
    /\ problem_data' = NoRecord
    /\ UNCHANGED <<script, dry_run, batch_size, problems_collection, inserted_ids,
                   notSeedVars>>

\* validator.validate reported errors
ValidationFailed ==
    /\ AtProblem
    /\ idx' = idx + 1
    /\ \E id \in ExternalIdsOf(script) \cup {""} :
        Tally(id, "failed", "invalid", FALSE)
    /\ UNCHANGED <<script, dry_run, batch_size, problems_collection, inserted_ids,
                   notSeedVars>>

\* where main goes on after the except clause of the loop body
AfterHandlerLeavesLoop == "finished"
AfterHandler == "loop"

\* an exception inside the loop body: except Exception -> update_stats('failed')
ProcessingRaised ==
    /\ seed_pc \in {"loop", "check", "insert"}
    /\ seed_pc = "loop" => idx < batch_size
    /\ idx' = IF seed_pc = "loop" THEN idx + 1 ELSE idx
    /\ stats' = update_stats(stats, "failed")
    /\ last_event' = [id |-> problem_data.externalId, status |-> "failed",
                      why |-> "exception", existed |-> FALSE]
    /\ seed_pc' = AfterHandler
    /\ problem_data' = NoRecord
    /\ rejected' = NoEntry
    /\ UNCHANGED <<script, dry_run, batch_size, problems_collection, inserted_ids,
                   notSeedVars>>

\* transform returned a record and the validator accepted it
Prepared ==
    /\ AtProblem
    /\ idx' = idx + 1
    /\ IF script = "codeforces"
       THEN \E record \in TransformReturns : problem_data' = record
       ELSE \E id \in ExternalIdsOf(script), t \in Titles :
                problem_data' = [externalId |-> id, title |-> t]
    /\ rejected' = NoEntry
    /\ seed_pc' = "check"
    /\ UNCHANGED <<script, dry_run, batch_size, problems_collection, stats,
                   last_event, inserted_ids, notSeedVars>>

\* if not config.dry_run and db_client.problem_exists(...): skipped
AlreadyExists ==
    /\ seed_pc = "check"
    /\ ~dry_run
    /\ problem_exists(problem_data.externalId)
    /\ Tally(problem_data.externalId, "skipped", "exists", TRUE)
    /\ UNCHANGED <<script, dry_run, batch_size, idx, problems_collection,
                   inserted_ids, notSeedVars>>

\* if config.dry_run: "Would insert", success
WouldInsert ==
    /\ seed_pc = "check"
    /\ dry_run
    /\ Tally(problem_data.externalId, "success", "dry_run",
             Stored(problems_collection, problem_data.externalId))
    /\ UNCHANGED <<script, dry_run, batch_size, idx, problems_collection,
                   inserted_ids, notSeedVars>>

\* the exists check found nothing: go on to insert_problem
NotFoundInDb ==
    /\ seed_pc = "check"
    /\ ~dry_run
    /\ ~problem_exists(problem_data.externalId)
    /\ seed_pc' = "insert"
    /\ UNCHANGED <<script, dry_run, batch_size, idx, problem_data,
                   problems_collection, stats, last_event, inserted_ids,
                   rejected, notSeedVars>>

\* insert_problem: insert_one succeeds, the id is returned, success
InsertStored ==
    /\ seed_pc = "insert"
    /\ ~Stored(problems_collection, problem_data.externalId)
    /\ problems_collection' = Append(problems_collection, problem_data)
    /\ inserted_ids' = inserted_ids \cup {problem_data.externalId}
    /\ Tally(problem_data.externalId, "success", "inserted", FALSE)
    /\ UNCHANGED <<script, dry_run, batch_size, idx, notSeedVars>>

\* insert_problem: DuplicateKeyError, None is returned
InsertDuplicate ==
    /\ seed_pc = "insert"
    /\ Stored(problems_collection, problem_data.externalId)
    /\ Tally(problem_data.externalId, InsertNoneStatus, "duplicate_key", TRUE)
    /\ UNCHANGED <<script, dry_run, batch_size, idx, problems_collection,
                   inserted_ids, notSeedVars>>

\* insert_problem: any other exception, None is returned
InsertError ==
    /\ seed_pc = "insert"
    /\ Tally(problem_data.externalId, InsertNoneStatus, "insert_error",
             Stored(problems_collection, problem_data.externalId))
    /\ UNCHANGED <<script, dry_run, batch_size, idx, problems_collection,
                   inserted_ids, notSeedVars>>

\* the loop is over: disconnect, summary
FinishRun ==
    /\ seed_pc = "loop"
    /\ idx = batch_size
    /\ seed_pc' = "finished"
    /\ UNCHANGED <<script, dry_run, batch_size, idx, problem_data,
                   problems_collection, stats, last_event, inserted_ids,
                   rejected, notSeedVars>>

\* another client of the database stores a problem document
OtherWriter ==
    /\ seed_pc # "closed"
    /\ \E id \in ExternalIds, t \in Titles :
        /\ ~Stored(problems_collection, id)
        /\ problems_collection' =
                Append(problems_collection, [externalId |-> id, title |-> t])
    /\ UNCHANGED <<script, dry_run, seed_pc, batch_size, idx, problem_data, stats,
                   last_event, inserted_ids, rejected, notSeedVars>>

\* KeyboardInterrupt inside the loop: "interrupted by user", summary
Interrupted ==
    /\ seed_pc \in {"loop", "check", "insert"}
    /\ seed_pc' = "interrupted"
    /\ problem_data' = NoRecord
    /\ rejected' = NoEntry
    /\ UNCHANGED <<script, dry_run, batch_size, idx, problems_collection, stats,
                   last_event, inserted_ids, notSeedVars>>

-----------------------------------------------------------------------------
(* DataValidator.validate, seed_problems_api.py and seed_leetcode.py *)

(* A record maps each of the four checked keys to None (key not in         *)
(* problem_data) or Some(text).  An error message is the tuple of the      *)
(* parts of its f-string.                                                  *)

TitleMaxLen == 200
RequiredFields == << "title", "description", "difficulty", "externalId" >>
Difficulties == {"easy", "medium", "hard"}

\* field not in problem_data or not problem_data[field]
FieldMissing(rec, field) == rec[field] = None \/ rec[field][1] = ""

\* for field in required_fields: ... errors.append(prefix + field)
MissingErrors(rec, prefix) ==
    LET miss(k) == IF FieldMissing(rec, RequiredFields[k])
                   THEN << <<prefix, RequiredFields[k]>> >> ELSE <<>>
    IN  miss(1) \o miss(2) \o miss(3) \o miss(4)

\* if 'difficulty' in problem_data: if ... not in ['easy', 'medium', 'hard']
DifficultyErrors(rec) ==
    IF rec.difficulty # None /\ rec.difficulty[1] \notin Difficulties
    THEN << <<"Invalid difficulty: ", rec.difficulty[1]>> >> ELSE <<>>

\* if 'description' in problem_data: if len(...) < 500
DescriptionErrors(rec, suffix) ==
    IF rec.description # None /\ Len(rec.description[1]) < MinDescLen
    THEN << <<"Description too short: ", Len(rec.description[1]), suffix>> >>
    ELSE <<>>

\* if 'title' in problem_data: if len(...) > 200
TitleErrors(rec) ==
    IF rec.title # None /\ Len(rec.title[1]) > TitleMaxLen
    THEN << <<"Title too long: ", Len(rec.title[1]), " chars (maximum 200)">> >>
    ELSE <<>>

\* return len(errors) == 0, errors
ValidationOf(errors) == [valid |-> errors = <<>>, errors |-> errors]

\* seed_problems_api.py
validate_api(rec) ==
    ValidationOf(MissingErrors(rec, "Missing required field: ")
                    \o DifficultyErrors(rec)
                    \o DescriptionErrors(rec, " chars (minimum 500)")
                    \o TitleErrors(rec))

\* seed_leetcode.py
validate_leetcode(rec) ==
    ValidationOf(MissingErrors(rec, "Missing: ")
                    \o DifficultyErrors(rec)
                    \o DescriptionErrors(rec, " chars"))

ValTitles ==
    {None, Some(""), Some("Two Sum"), Some(Repeat("T", TitleMaxLen)),
     Some(Repeat("T", TitleMaxLen + 1))}
ValDescriptions ==
    {None, Some(""), Some(Repeat("d", MinDescLen - 1)), Some(Repeat("d", MinDescLen))}
ValDifficulties ==
    {None, Some(""), Some("easy"), Some("medium"), Some("hard"), Some("Easy")}
ValExternalIds == {None, Some(""), Some("1A")}

ValidateIdle ==
    /\ val_record = [title |-> None, description |-> None, difficulty |-> None,
                     externalId |-> None]
    /\ cf_validation = None
    /\ lc_validation = None

ValidateInit ==
    /\ val_record \in [title : ValTitles, description : ValDescriptions,
                       difficulty : ValDifficulties, externalId : ValExternalIds]
    /\ cf_validation = None
    /\ lc_validation = None

ValidateApi ==
    /\ cf_validation = None
    /\ cf_validation' = Some(validate_api(val_record))
    /\ UNCHANGED <<val_record, lc_validation, notValidateVars>>

ValidateLeetCode ==
    /\ lc_validation = None
    /\ lc_validation' = Some(validate_leetcode(val_record))
    /\ UNCHANGED <<val_record, cf_validation, notValidateVars>>

-----------------------------------------------------------------------------
(* Text helpers: str.strip(), str.split(), str.join(), the `in` operator   *)

Ch(s, i) == SubSeq(s, i, i)

\* the characters str.strip() removes
IsSpace(c) == c \in {" ", "\t", "\n", "\r"}

RECURSIVE LStrip(_)
LStrip(s) ==
    IF Len(s) > 0 /\ IsSpace(Ch(s, 1)) THEN LStrip(SubSeq(s, 2, Len(s))) ELSE s

RECURSIVE RStrip(_)
RStrip(s) ==
    IF Len(s) > 0 /\ IsSpace(Ch(s, Len(s))) THEN RStrip(SubSeq(s, 1, Len(s) - 1)) ELSE s

Strip(s) == LStrip(RStrip(s))

\* the first position >= i at which sub occurs in s, 0 if there is none
RECURSIVE IndexFrom(_, _, _)
IndexFrom(s, sub, i) ==
    IF i + Len(sub) - 1 > Len(s) THEN 0
    ELSE IF SubSeq(s, i, i + Len(sub) - 1) = sub THEN i
    ELSE IndexFrom(s, sub, i + 1)

\* s.find(sub) + 1: the first position of sub in s, 0 if there is none
IndexOf(s, sub) == IndexFrom(s, sub, 1)

\* sub in s
Contains(s, sub) == IndexOf(s, sub) # 0

\* s.split(sep)
RECURSIVE Split(_, _)
Split(s, sep) ==
    LET i == IndexOf(s, sep)
    IN  IF i = 0 THEN << s >>
        ELSE << SubSeq(s, 1, i - 1) >> \o Split(SubSeq(s, i + Len(sep), Len(s)), sep)

\* sep.join(parts)
RECURSIVE Join(_, _)
Join(parts, sep) ==
    IF Len(parts) = 0 THEN ""
    ELSE IF Len(parts) = 1 THEN parts[1]
    ELSE parts[1] \o sep \o Join(Tail(parts), sep)

-----------------------------------------------------------------------------
(* A parsed HTML tree (BeautifulSoup): text nodes and elements             *)

TextNode(s) ==
    [name |-> "#text", cls |-> "", text |-> s, href |-> "", src |-> "", alt |-> "",
     children |-> << >>]
El(name, cls, children) ==
    [name |-> name, cls |-> cls, text |-> "", href |-> "", src |-> "", alt |-> "",
     children |-> children]
Link(href, children) == [El("a", "", children) EXCEPT !.href = href]
Img(alt, src) == [El("img", "", << >>) EXCEPT !.alt = alt, !.src = src]

\* element.get_text(): the text of all descendants, in document order
RECURSIVE GetText(_)
GetText(node) ==
    IF node.name = "#text" THEN node.text
    ELSE LET RECURSIVE from(_)
             from(k) == IF k > Len(node.children) THEN ""
                        ELSE GetText(node.children[k]) \o from(k + 1)
         IN  from(1)

\* for tag in soup(['script', 'style']): tag.decompose()
RECURSIVE Decompose(_)
Decompose(node) ==
    LET RECURSIVE from(_)
        from(k) ==
            IF k > Len(node.children) THEN << >>
            ELSE (IF node.children[k].name \in {"script", "style"} THEN << >>
                  ELSE << Decompose(node.children[k]) >>) \o from(k + 1)
    IN  [node EXCEPT !.children = from(1)]

-----------------------------------------------------------------------------
(* MarkdownConverter, seed_problems.py *)

\* the backquote of the Markdown code marks; a string of this language cannot
\* hold that character, an apostrophe stands for it
Backquote == "'"
Fence == Backquote \o Backquote \o Backquote

Headings == {"h1", "h2", "h3", "h4", "h5", "h6"}
HeadingLevel(name) ==
    CASE name = "h1" -> 1 [] name = "h2" -> 2 [] name = "h3" -> 3
      [] name = "h4" -> 4 [] name = "h5" -> 5 [] name = "h6" -> 6

\* MarkdownConverter._convert_element
RECURSIVE _convert_element(_)
_convert_element(element) ==
    LET \* ''.join(self._convert_element(child) for child in node.children)
        RECURSIVE inner(_, _)
        inner(node, k) ==
            IF k > Len(node.children) THEN ""
            ELSE _convert_element(node.children[k]) \o inner(node, k + 1)
        content == inner(element, 1)
        \* element.find_all('li', recursive=False), each rendered by prefix(i)
        RECURSIVE items(_, _, _)
        items(k, i, numbered) ==
            IF k > Len(element.children) THEN << >>
            ELSE IF element.children[k].name = "li"
                 THEN << (IF numbered THEN ToString(i) \o ". " ELSE "- ")
                            \o inner(element.children[k], 1) >>
                        \o items(k + 1, i + 1, numbered)
                 ELSE items(k + 1, i, numbered)
    IN  CASE element.name = "#text" -> element.text
          [] element.name \in {"p", "div"} -> "\n\n" \o content \o "\n\n"
          [] element.name \in Headings ->
                "\n\n" \o Repeat("#", HeadingLevel(element.name)) \o " " \o content
                    \o "\n\n"
          [] element.name \in {"strong", "b"} -> "**" \o content \o "**"
          [] element.name \in {"em", "i"} -> "*" \o content \o "*"
          [] element.name = "code" -> Backquote \o content \o Backquote
          [] element.name = "pre" ->
                "\n" \o Fence \o "\n" \o GetText(element) \o "\n" \o Fence \o "\n"
          [] element.name = "ul" -> "\n" \o Join(items(1, 1, FALSE), "\n") \o "\n"
          [] element.name = "ol" -> "\n" \o Join(items(1, 1, TRUE), "\n") \o "\n"
          [] element.name = "br" -> "\n"
          [] element.name = "a" -> "[" \o content \o "](" \o element.href \o ")"
          [] element.name = "img" -> "![" \o element.alt \o "](" \o element.src \o ")"
          [] OTHER -> content

\* [line.rstrip() for line in lines], [line.strip() for line in lines]
RStripAll(lines) == [k \in 1..Len(lines) |-> RStrip(lines[k])]
StripAll(lines) == [k \in 1..Len(lines) |-> Strip(lines[k])]

\* line.strip() or line == ''
KeepLine(line) == Strip(line) # "" \/ line = ""

\* the two clean-up passes of convert
CleanUp(md) ==
    LET stripped == Join(RStripAll(Split(md, "\n")), "\n")
        lines == Split(stripped, "\n")
    IN  Join(SelectSeq(lines, KeepLine), "\n")

\* MarkdownConverter.convert on the tree BeautifulSoup(html, 'lxml') builds
\* for a fragment (a list of nodes, empty for an empty html string)
convert(fragment) ==
    IF fragment = << >> THEN ""
    ELSE LET soup == Decompose(El("[document]", "", << El("html", "", <<
                            El("body", "", fragment) >>) >>))
         IN  Strip(CleanUp(_convert_element(soup)))

Paragraph(s) == El("p", "", << TextNode(s) >>)

\* the top-level blocks of the fragments that are converted
MdBlocks ==
    { Paragraph("Hello"),
      Paragraph("trailing  "),
      Paragraph("  "),
      El("div", "", << Paragraph("nested") >>),
      El("div", "", << >>),
      El("h2", "", << TextNode("Title") >>),
      El("ul", "", << El("li", "", << TextNode("one") >>),
                      El("li", "", << TextNode("two") >>) >>),
      El("ol", "", << El("li", "", << TextNode("first") >>) >>),
      El("pre", "", << TextNode("x = 1  \n") >>),
      El("p", "", << El("strong", "", << TextNode("bold") >>), TextNode(" and "),
                     El("em", "", << TextNode("it") >>), El("br", "", << >>),
                     El("code", "", << TextNode("n") >>) >>),
      El("p", "", << Link("https://codeforces.com", << TextNode("link") >>),
                     Img("figure", "a.png") >>),
      El("script", "", << TextNode("alert(1)") >>),
      El("span", "", << TextNode("plain") >>) }

MdFragments == UNION {[1..n -> MdBlocks] : n \in 0..MaxBlocks}

MarkdownIdle ==
    /\ md_fragment = << >>
    /\ markdown = Unset

MarkdownInit ==
    /\ md_fragment \in MdFragments
    /\ markdown = Unset

\* markdown = self.markdown_converter.convert(html)
Convert ==
    /\ markdown = Unset
    /\ markdown' = convert(md_fragment)
    /\ UNCHANGED <<md_fragment, notMarkdownVars>>

-----------------------------------------------------------------------------
(* BeautifulSoup searches and the regular expressions of ProblemParser      *)

\* the descendants of a node in document order
RECURSIVE Descendants(_)
Descendants(node) ==
    LET RECURSIVE from(_)
        from(k) ==
            IF k > Len(node.children) THEN << >>
            ELSE << node.children[k] >> \o Descendants(node.children[k]) \o from(k + 1)
    IN  from(1)

AnyClass == "*"
Matches(node, name, cls) ==
    node.name = name /\ (cls = AnyClass \/ node.cls = cls)

\* node.find_all(name, class_=cls), and with recursive=False
FindAll(node, name, cls) ==
    LET wanted(n) == Matches(n, name, cls)
    IN  SelectSeq(Descendants(node), wanted)
FindChildren(node, name, cls) ==
    LET wanted(n) == Matches(n, name, cls)
    IN  SelectSeq(node.children, wanted)

\* node.find(name, class_=cls): Some(first match in document order) or None
Find(node, name, cls) ==
    LET found == FindAll(node, name, cls)
    IN  IF found = << >> THEN None ELSE Some(found[1])

\* nodes with the first match in document order removed (Tag.decompose)
RECURSIVE DecomposeFirst(_, _, _)
DecomposeFirst(nodes, name, cls) ==
    IF nodes = << >> THEN << >>
    ELSE LET h == Head(nodes)
             sub == DecomposeFirst(h.children, name, cls)
         IN  IF Matches(h, name, cls) THEN Tail(nodes)
             ELSE IF sub # h.children THEN << [h EXCEPT !.children = sub] >> \o Tail(nodes)
             ELSE << h >> \o DecomposeFirst(Tail(nodes), name, cls)

\* nodes with the first match in document order replaced by new
RECURSIVE ReplaceFirst(_, _, _, _)
ReplaceFirst(nodes, name, cls, new) ==
    IF nodes = << >> THEN << >>
    ELSE LET h == Head(nodes)
             sub == ReplaceFirst(h.children, name, cls, new)
         IN  IF Matches(h, name, cls) THEN << new >> \o Tail(nodes)
             ELSE IF sub # h.children THEN << [h EXCEPT !.children = sub] >> \o Tail(nodes)
             ELSE << h >> \o ReplaceFirst(Tail(nodes), name, cls, new)

DigitValue ==
    [c \in {"0", "1", "2", "3", "4", "5", "6", "7", "8", "9"} |->
        CASE c = "0" -> 0 [] c = "1" -> 1 [] c = "2" -> 2 [] c = "3" -> 3
          [] c = "4" -> 4 [] c = "5" -> 5 [] c = "6" -> 6 [] c = "7" -> 7
          [] c = "8" -> 8 [] c = "9" -> 9]
IsDigit(c) == c \in DOMAIN DigitValue

\* length of the longest run of digits (\d+, greedy) of s that starts at i
RECURSIVE DigitRun(_, _)
DigitRun(s, i) ==
    IF i <= Len(s) /\ IsDigit(Ch(s, i)) THEN 1 + DigitRun(s, i + 1) ELSE 0

\* the position after the whitespace run (\s*) of s that starts at i
RECURSIVE SkipSpace(_, _)
SkipSpace(s, i) ==
    IF i <= Len(s) /\ IsSpace(Ch(s, i)) THEN SkipSpace(s, i + 1) ELSE i

\* the literal lit stands in s at position i
LiteralAt(s, i, lit) ==
    i >= 1 /\ i + Len(lit) - 1 <= Len(s) /\ SubSeq(s, i, i + Len(lit) - 1) = lit

\* int(digits)
RECURSIVE ToInt(_)
ToInt(digits) ==
    IF Len(digits) = 0 THEN 0
    ELSE 10 * ToInt(SubSeq(digits, 1, Len(digits) - 1)) + DigitValue[Ch(digits, Len(digits))]

\* the least element of a non-empty set of positions (the leftmost match)
Leftmost(positions) == CHOOSE p \in positions : \A q \in positions : p <= q

\* re.search(r'(\d+(?:\.\d+)?)\s*second', text): None, or Some(int(float(group 1) * 1000));
\* the product is exact for the decimal texts of the pages below
SearchSeconds(text) ==
    LET whole(p) == DigitRun(text, p)
        frac(p) == IF whole(p) > 0 /\ LiteralAt(text, p + whole(p), ".")
                   THEN DigitRun(text, p + whole(p) + 1) ELSE 0
        stop(p) == p + whole(p) + (IF frac(p) > 0 THEN 1 + frac(p) ELSE 0)
        hits == {p \in 1..Len(text) :
                    whole(p) > 0 /\ LiteralAt(text, SkipSpace(text, stop(p)), "second")}
    IN  IF hits = {} THEN None
        ELSE LET p == Leftmost(hits)
                 units == ToInt(SubSeq(text, p, p + whole(p) - 1))
                 decimals == SubSeq(text, p + whole(p) + 1, p + whole(p) + frac(p))
                             \o "000"
             IN  Some(units * 1000 + ToInt(SubSeq(decimals, 1, 3)))

\* re.search(r'(\d+)\s*megabyte', text): None or Some(int(group 1))
SearchMegabytes(text) ==
    LET hits == {p \in 1..Len(text) :
                    /\ DigitRun(text, p) > 0
                    /\ LiteralAt(text, SkipSpace(text, p + DigitRun(text, p)), "megabyte")}
    IN  IF hits = {} THEN None
        ELSE LET p == Leftmost(hits)
             IN  Some(ToInt(SubSeq(text, p, p + DigitRun(text, p) - 1)))

\* re.search(r'\d+', text): None or Some(int(match))
SearchInteger(text) ==
    LET hits == {p \in 1..Len(text) : IsDigit(Ch(text, p))}
    IN  IF hits = {} THEN None
        ELSE LET p == Leftmost(hits)
             IN  Some(ToInt(SubSeq(text, p, p + DigitRun(text, p) - 1)))

-----------------------------------------------------------------------------
(* ProblemParser, seed_problems.py *)

(* An exception inside the try block of an extractor is an input of parse:  *)
(* NoFault, or the region whose extractor raises together with the number   *)
(* of loop iterations that were completed before the raise.                 *)

Regions ==
    {"title", "time_limit", "memory_limit", "description", "input_format",
     "output_format", "examples", "test_cases", "tags", "difficulty_rating"}
NoFault == [region |-> "none", after |-> 0]
Raises(fault, region) == fault.region = region

DefaultTimeLimit   == 2000
DefaultMemoryLimit == 256

\* f"Problem {contest_id}{problem_index}"
FallbackTitle(contest_id, problem_index) ==
    "Problem " \o ToString(contest_id) \o problem_index

\* title_text.split('. ', 1)[1] if '. ' in title_text
StripIndexPrefix(title_text) ==
    IF Contains(title_text, ". ")
    THEN SubSeq(title_text, IndexOf(title_text, ". ") + 2, Len(title_text))
    ELSE title_text

_extract_title(soup, contest_id, problem_index, fault) ==
    LET title_div == Find(soup, "div", "title")
    IN  IF ~Raises(fault, "title") /\ title_div # None
        THEN StripIndexPrefix(Strip(GetText(title_div[1])))
        ELSE FallbackTitle(contest_id, problem_index)

_extract_time_limit(soup, fault) ==
    LET time_limit_div == Find(soup, "div", "time-limit")
        match == IF time_limit_div = None THEN None
                 ELSE SearchSeconds(GetText(time_limit_div[1]))
    IN  IF ~Raises(fault, "time_limit") /\ match # None THEN match[1]
        ELSE DefaultTimeLimit

_extract_memory_limit_unguarded(soup, fault) ==
    LET memory_limit_div == Find(soup, "div", "memory-limit")
        match == IF memory_limit_div = None THEN None
                 ELSE SearchMegabytes(GetText(memory_limit_div[1]))
    IN  IF match # None THEN match[1] ELSE DefaultMemoryLimit

_extract_memory_limit(soup, fault) ==
    LET memory_limit_div == Find(soup, "div", "memory-limit")
        match == IF memory_limit_div = None THEN None
                 ELSE SearchMegabytes(GetText(memory_limit_div[1]))
    IN  IF ~Raises(fault, "memory_limit") /\ match # None THEN match[1]
        ELSE DefaultMemoryLimit

\* the loop of _extract_description over the direct child divs, from child k
RECURSIVE DescriptionParts(_, _)
DescriptionParts(divs, k) ==
    IF k > Len(divs) THEN << >>
    ELSE IF Find(divs[k], "div", "input-specification") # None THEN << >>
    ELSE IF Find(divs[k], "div", "output-specification") # None THEN << >>
    ELSE LET md == convert(<< divs[k] >>)
         IN  (IF md # "" THEN << md >> ELSE << >>) \o DescriptionParts(divs, k + 1)

_extract_description(soup, fault) ==
    LET problem_statement == Find(soup, "div", "problem-statement")
    IN  IF Raises(fault, "description") \/ problem_statement = None THEN ""
        ELSE Join(DescriptionParts(
                    FindChildren(problem_statement[1], "div", AnyClass), 1), "\n\n")

\* _extract_input_format / _extract_output_format on the container class cls:
\* the text, and the soup after header.decompose()
ExtractFormat(soup, cls, raised) ==
    LET spec == Find(soup, "div", cls)
        cut == [spec[1] EXCEPT
                    !.children = DecomposeFirst(@, "div", "section-title")]
    IN  IF raised \/ spec = None THEN [text |-> "", soup |-> soup]
        ELSE [text |-> convert(<< cut >>),
              soup |-> [soup EXCEPT !.children = ReplaceFirst(@, "div", cls, cut)]]

_extract_input_format(soup, fault) ==
    ExtractFormat(soup, "input-specification", Raises(fault, "input_format"))
_extract_output_format(soup, fault) ==
    ExtractFormat(soup, "output-specification", Raises(fault, "output_format"))

\* input_pre.get_text().strip() if input_pre else ""
PreText(block) ==
    LET pre == Find(block, "pre", AnyClass)
    IN  IF pre = None THEN "" ELSE Strip(GetText(pre[1]))

Min(a, b) == IF a <= b THEN a ELSE b

TestCasesZeroBased(inputs, outputs, count) ==
    [i \in 1..count |->
        [input |-> PreText(inputs[i]), output |-> PreText(outputs[i]),
         explanation |-> "Sample test " \o ToString(i - 1)]]

\* the test cases of the zip(inputs, outputs) loop after `count` iterations
TestCasesOf(inputs, outputs, count) ==
    [i \in 1..count |->
        [input |-> PreText(inputs[i]), output |-> PreText(outputs[i]),
         explanation |-> "Sample test " \o ToString(i)]]

\* region is "examples" or "test_cases": parse calls the extractor for each
_extract_test_cases(soup, fault, region) ==
    LET sample_tests == Find(soup, "div", "sample-test")
        inputs == FindAll(sample_tests[1], "div", "input")
        outputs == FindAll(sample_tests[1], "div", "output")
        pairs == Min(Len(inputs), Len(outputs))
    IN  IF sample_tests = None THEN << >>
        ELSE IF Raises(fault, region)
             THEN TestCasesOf(inputs, outputs, Min(fault.after, pairs))
        ELSE TestCasesOf(inputs, outputs, pairs)

\* the tags appended by the first `count` iterations of the loop
RECURSIVE TagsOf(_, _)
TagsOf(tag_elements, count) ==
    IF count = 0 THEN << >>
    ELSE LET tag_text == Strip(GetText(tag_elements[count]))
         IN  TagsOf(tag_elements, count - 1)
                \o (IF tag_text # "" THEN << tag_text >> ELSE << >>)

_extract_tags(soup, fault) ==
    LET tag_elements == FindAll(soup, "span", "tag-box")
    IN  IF Raises(fault, "tags")
        THEN TagsOf(tag_elements, Min(fault.after, Len(tag_elements)))
        ELSE TagsOf(tag_elements, Len(tag_elements))

_extract_difficulty_rating(soup, fault) ==
    LET rating_span == Find(soup, "span", "ProblemRating")
    IN  IF Raises(fault, "difficulty_rating") \/ rating_span = None THEN None
        ELSE SearchInteger(Strip(GetText(rating_span[1])))

\* ProblemParser.parse after BeautifulSoup(html, 'lxml') built soup
parse(soup, contest_id, problem_index, fault) ==
    LET after_input == _extract_input_format(soup, fault)
        after_output == _extract_output_format(after_input.soup, fault)
        later == after_output.soup
    IN  [title |-> _extract_title(soup, contest_id, problem_index, fault),
         description |-> _extract_description(soup, fault),
         inputFormat |-> after_input.text,
         outputFormat |-> after_output.text,
         timeLimit |-> _extract_time_limit(soup, fault),
         memoryLimit |-> _extract_memory_limit(soup, fault),
         examples |-> _extract_test_cases(later, fault, "examples"),
         testCases |-> _extract_test_cases(later, fault, "test_cases"),
         tags |-> _extract_tags(later, fault),
         difficultyRating |-> _extract_difficulty_rating(later, fault),
         externalId |-> ToString(contest_id) \o problem_index]

(* The pages that are parsed.  A page is described by its regions and      *)
(* BuildSoup gives the tree of the Codeforces problem page: the            *)
(* problem-statement container with the header, the statement, the input   *)
(* and output specifications, the sample tests and the note as children,   *)
(* and the sidebar with the tag boxes and the rating.                      *)

StatementText  == "Pave the square."
InputSpecText  == "Three integers."
OutputSpecText == "One number."
NoteText       == "The answer is 4."

\* one input or output block of the sample tests; pre is None or Some(text)
SampleBlock(kind, pre) ==
    El("div", kind,
       IF pre = None THEN << >> ELSE << El("pre", "", << TextNode(pre[1]) >>) >>)

SampleTests(samples) ==
    IF samples = None THEN << >>
    ELSE << El("div", "sample-tests", <<
                El("div", "section-title", << TextNode("Examples") >>),
                El("div", "sample-test",
                   [k \in 1..Len(samples[1].inputs) |->
                        SampleBlock("input", samples[1].inputs[k])]
                   \o [k \in 1..Len(samples[1].outputs) |->
                        SampleBlock("output", samples[1].outputs[k])]) >>) >>

Section(cls, heading, body) ==
    El("div", cls, << El("div", "section-title", << TextNode(heading) >>),
                      Paragraph(body) >>)

Specifications(page) ==
    (IF page.input_spec
     THEN << Section("input-specification", "Input", InputSpecText) >> ELSE << >>)
    \o (IF page.output_spec
        THEN << Section("output-specification", "Output", OutputSpecText) >> ELSE << >>)

Header(page) ==
    El("div", "header",
       (IF page.title = None THEN << >>
        ELSE << El("div", "title", << TextNode(page.title[1]) >>) >>)
       \o (IF page.time_limit = None THEN << >>
           ELSE << El("div", "time-limit", <<
                      El("div", "property-title", << TextNode("time limit per test") >>),
                      TextNode(page.time_limit[1]) >>) >>)
       \o (IF page.memory_limit = None THEN << >>
           ELSE << El("div", "memory-limit", <<
                      El("div", "property-title", << TextNode("memory limit per test") >>),
                      TextNode(page.memory_limit[1]) >>) >>))

ProblemStatement(page) ==
    IF page.layout = "none" THEN << >>
    ELSE << El("div", "problem-statement",
               << Header(page), El("div", "", << Paragraph(StatementText) >>) >>
               \o (IF page.layout = "wrapped"
                   THEN << El("div", "", Specifications(page)) >>
                   ELSE Specifications(page))
               \o SampleTests(page.samples)
               \o (IF page.note THEN << Section("note", "Note", NoteText) >> ELSE << >>)) >>

Sidebar(page) ==
    El("div", "sidebar",
       [k \in 1..Len(page.tags) |-> El("span", "tag-box", << TextNode(page.tags[k]) >>)]
       \o (IF page.rating = None THEN << >>
           ELSE << El("span", "ProblemRating", << TextNode(page.rating[1]) >>) >>))

\* BeautifulSoup(html, 'lxml')
BuildSoup(page) ==
    El("[document]", "", << El("html", "", <<
        El("body", "", ProblemStatement(page) \o << Sidebar(page) >>) >>) >>)

BasePage ==
    [title |-> Some("A. Theatre Square"), time_limit |-> Some("1 second"),
     memory_limit |-> Some("64 megabytes"), layout |-> "flat",
     input_spec |-> TRUE, output_spec |-> TRUE, note |-> TRUE,
     samples |-> Some([inputs |-> << Some("6 6 4\n") >>, outputs |-> << Some("4\n") >>]),
     tags |-> << "math", " greedy " >>, rating |-> Some("*1000")]

\* the part of BasePage a region is built from, and the same part left out
RegionParts == {"title", "time_limit", "memory_limit", "specs", "samples", "tags", "rating"}
Without(p, absent) ==
    [p EXCEPT !.title = IF "title" \in absent THEN None ELSE @,
              !.time_limit = IF "time_limit" \in absent THEN None ELSE @,
              !.memory_limit = IF "memory_limit" \in absent THEN None ELSE @,
              !.input_spec = IF "specs" \in absent THEN FALSE ELSE @,
              !.output_spec = IF "specs" \in absent THEN FALSE ELSE @,
              !.samples = IF "samples" \in absent THEN None ELSE @,
              !.tags = IF "tags" \in absent THEN << >> ELSE @,
              !.rating = IF "rating" \in absent THEN None ELSE @]

\* the base page with no, one, two or all regions absent
PresencePages ==
    {Without(BasePage, absent) :
        absent \in {a \in SUBSET RegionParts : Cardinality(a) <= 2 \/ a = RegionParts}}

\* m input blocks and n output blocks; the block named by gap has no pre node
SampleTexts(count, kind, gap) ==
    [k \in 1..count |->
        IF gap = <<kind, k>> THEN None
        ELSE Some(" " \o ToString(k) \o (IF kind = "input" THEN " 2 \n" ELSE "\n"))]
SamplePages ==
    {[BasePage EXCEPT !.samples =
            Some([inputs |-> SampleTexts(m, "input", gap),
                  outputs |-> SampleTexts(n, "output", gap)])] :
        m \in 0..MaxSamples, n \in 0..MaxSamples,
        gap \in {<<"none", 0>>, <<"input", 1>>, <<"output", MaxSamples>>}}

\* pages that differ from the base page in the content of one region
ContentPages ==
    {[BasePage EXCEPT !.title = Some(t)] :
        t \in {"Theatre Square", "Mr. Smith Goes", "B. Dr. Who", " C. Sums \n",
               "A1. Easy Version", ""}}
    \cup {[BasePage EXCEPT !.time_limit = Some(t)] :
        t \in {"2 seconds", "1.5 seconds", "0.25 second", "unlimited", "3seconds"}}
    \cup {[BasePage EXCEPT !.memory_limit = Some(t)] :
        t \in {"256 megabytes", "512megabytes", "1 gigabyte"}}
    \cup {[BasePage EXCEPT !.layout = l, !.note = n] :
        l \in {"none", "flat", "wrapped"}, n \in BOOLEAN}
    \cup {[BasePage EXCEPT !.input_spec = i, !.output_spec = o] :
        i \in BOOLEAN, o \in BOOLEAN}
    \cup SamplePages
    \cup {[BasePage EXCEPT !.tags = tg] : tg \in {<< "dp" >>, << "", "graphs" >>}}
    \cup {[BasePage EXCEPT !.rating = Some(r)] :
        r \in {"1600", "unrated", "rated 2100 (was 1900)"}}

Pages == PresencePages \cup ContentPages

\* the faults of one parse call: at most one extractor raises
Faults ==
    {NoFault}
    \cup {[region |-> r, after |-> 0] : r \in Regions}
    \cup {[region |-> r, after |-> k] :
            r \in {"examples", "test_cases", "tags"}, k \in 1..MaxSamples}

NoPage == [BasePage EXCEPT !.layout = "none"]

ParseIdle ==
    /\ html = NoPage
    /\ parse_contest_id = 0
    /\ parse_problem_index = ""
    /\ parse_fault = NoFault
    /\ parsed = None

ParseInit ==
    /\ html \in Pages
    /\ parse_contest_id = 1
    /\ parse_problem_index = "A"
    /\ parse_fault = NoFault
    /\ parsed = None

\* problem_data = parser.parse(html, contest_id, problem_index)
Parse ==
    /\ parsed = None
    /\ \E fault \in Faults :
        /\ parse_fault' = fault
        /\ parsed' = Some(parse(BuildSoup(html), parse_contest_id,
                              parse_problem_index, fault))
    /\ UNCHANGED <<html, parse_contest_id, parse_problem_index, notParseVars>>

\* BeautifulSoup(html, 'lxml') raises: the error is logged, parse returns None
ParseFailed ==
    /\ parsed = None
    /\ parse_fault = NoFault
    /\ parse_fault' = [region |-> "soup", after |-> 0]
    /\ UNCHANGED <<html, parse_contest_id, parse_problem_index, parsed, notParseVars>>

-----------------------------------------------------------------------------
(* LeetCodeCompleteScraper.parse_html_content, scrape_leetcode_complete.py  *)

(* The HTML content is the list of events HTMLParser.feed hands to the     *)
(* ContentParser callbacks: start tags, end tags and text data.            *)
(* (HTMLParser delivers a text that holds a '<' which opens no tag in      *)
(* several handle_data calls; outside <strong> their join is the text.)    *)

StartTag(tag) == [kind |-> "start", tag |-> tag, data |-> ""]
EndTag(tag)   == [kind |-> "end", tag |-> tag, data |-> ""]
Data(text)    == [kind |-> "data", tag |-> "", data |-> text]

\* ''.join(self.current_text).strip()
Flushed(current_text) == Strip(Join(current_text, ""))

ContentParserInit ==
    [text_parts |-> << >>, in_pre |-> FALSE, in_strong |-> FALSE, current_text |-> << >>]

handle_starttag(self, tag) ==
    IF tag = "pre" THEN [self EXCEPT !.in_pre = TRUE]
    ELSE IF tag = "strong" THEN [self EXCEPT !.in_strong = TRUE]
    ELSE IF tag \in {"p", "div"} /\ self.current_text # << >>
         THEN [self EXCEPT !.text_parts = Append(@, Flushed(self.current_text)),
                           !.current_text = << >>]
    ELSE self

handle_endtag(self, tag) ==
    IF tag = "pre"
    THEN IF self.current_text # << >>
         THEN [self EXCEPT !.in_pre = FALSE,
                           !.text_parts = Append(@, Fence \o "\n"
                                \o Flushed(self.current_text) \o "\n" \o Fence),
                           !.current_text = << >>]
         ELSE [self EXCEPT !.in_pre = FALSE]
    ELSE IF tag = "strong" THEN [self EXCEPT !.in_strong = FALSE]
    ELSE self

handle_data(self, data) ==
    IF Strip(data) = "" THEN self
    ELSE IF self.in_strong
         THEN [self EXCEPT !.current_text = Append(@, "**" \o data \o "**")]
    ELSE [self EXCEPT !.current_text = Append(@, data)]

\* parser.feed(html_content)
RECURSIVE feed(_, _)
feed(self, events) ==
    IF events = << >> THEN self
    ELSE LET e == Head(events)
             next == CASE e.kind = "start" -> handle_starttag(self, e.tag)
                       [] e.kind = "end" -> handle_endtag(self, e.tag)
                       [] e.kind = "data" -> handle_data(self, e.data)
         IN  feed(next, Tail(events))

get_text(self) ==
    Join(IF self.current_text # << >>
         THEN Append(self.text_parts, Flushed(self.current_text))
         ELSE self.text_parts, "\n\n")

(* The regular expressions.  All are compiled with re.IGNORECASE: they are *)
(* matched on the lower-cased text `low`, whose positions are those of the *)
(* text.  A position one past the end stands for the `$` of a lookahead.   *)

\* 'Example \d+:' at position p: the position after the match, 0 if no match
ExampleAnchorEnd(low, p) ==
    LET digits == DigitRun(low, p + 8)
    IN  IF LiteralAt(low, p, "example ") /\ digits > 0
            /\ LiteralAt(low, p + 8 + digits, ":")
        THEN p + 8 + digits + 1 ELSE 0

\* 'Constraints?:' at position p: the position after the match, 0 if no match
ConstraintsAnchorEnd(low, p) ==
    IF LiteralAt(low, p, "constraints:") THEN p + 12
    ELSE IF LiteralAt(low, p, "constraint:") THEN p + 11
    ELSE 0

\* the end of a lazy group (.*?) that starts at `from` and is followed by a
\* lookahead: the first position >= from at which the lookahead holds; it holds at
\* the positions `stops` and, by its `$`, at the end of the text
LookaheadFrom(low, from, stops) ==
    Leftmost({q \in from..(Len(low) + 1) : q = Len(low) + 1 \/ q \in stops})

\* re.finditer(r'Example \d+:(.*?)(?=Example \d+:|Constraints:|$)', ...):
\* group 1 of every match at or after position pos, in order
RECURSIVE ExampleMatches(_, _, _)
ExampleMatches(full_text, low, pos) ==
    LET starts == {p \in pos..Len(low) : ExampleAnchorEnd(low, p) > 0}
        from == ExampleAnchorEnd(low, Leftmost(starts))
        ahead == {q \in from..Len(low) :
                    ExampleAnchorEnd(low, q) > 0 \/ LiteralAt(low, q, "constraints:")}
        stop == LookaheadFrom(low, from, ahead)
    IN  IF starts = {} THEN << >>
        ELSE << SubSeq(full_text, from, stop - 1) >> \o ExampleMatches(full_text, low, stop)

\* re.search(label + r'(.*?)(?=' + until + '|$)', example_text): None or
\* Some(group(1).strip()); until = "" is the pattern that ends with (.*?)$
LabelledField(example_text, label, until) ==
    LET low == Lower(example_text)
        p == IndexOf(low, label)
        ahead == {q \in 1..Len(low) : until # "" /\ LiteralAt(low, q, until)}
    IN  IF p = 0 THEN None
        ELSE Some(Strip(SubSeq(example_text, p + Len(label),
                               LookaheadFrom(low, p + Len(label), ahead) - 1)))

\* the example dict of one match; a key that was not set is None
ExampleOf(group1) ==
    LET example_text == Strip(group1)
    IN  [input |-> LabelledField(example_text, "input:", "output:"),
         output |-> LabelledField(example_text, "output:", "explanation:"),
         explanation |-> LabelledField(example_text, "explanation:", "")]

EmptyExample == [input |-> None, output |-> None, explanation |-> None]

\* if example: examples.append(example)
NonEmptyExample(example) == example # EmptyExample

\* the characters of lstrip('•-*'); '•' cannot be written in a string of this
\* language and is left out
BulletChars == {"-", "*"}

RECURSIVE LStripBullets(_)
LStripBullets(line) ==
    IF Len(line) > 0 /\ Ch(line, 1) \in BulletChars
    THEN LStripBullets(SubSeq(line, 2, Len(line))) ELSE line

NonBlank(line) == Strip(line) # ""

CleanConstraintKeepBullets(line) == Strip(line)
CleanConstraint(line) == Strip(LStripBullets(line))

\* re.search(r'Constraints?:(.*?)(?=\n\n|$)', full_text) and the two list
\* comprehensions
ConstraintsOf(full_text, low) ==
    LET starts == {p \in 1..Len(low) : ConstraintsAnchorEnd(low, p) > 0}
        from == ConstraintsAnchorEnd(low, Leftmost(starts))
        ahead == {q \in 1..Len(low) : LiteralAt(low, q, "\n\n")}
        constraints_text ==
            Strip(SubSeq(full_text, from, LookaheadFrom(low, from, ahead) - 1))
        constraint_lines ==
            StripAll(SelectSeq(Split(constraints_text, "\n"), NonBlank))
    IN  IF starts = {} THEN << >>
        ELSE LET kept == SelectSeq(constraint_lines, NonBlank)
             IN  [k \in 1..Len(kept) |-> CleanConstraint(kept[k])]

\* re.search(r'^(.*?)(?=Example \d+:|Constraints?:|$)', full_text).group(1).strip()
DescriptionOf(full_text, low) ==
    LET ahead == {q \in 1..Len(low) :
                    ExampleAnchorEnd(low, q) > 0 \/ ConstraintsAnchorEnd(low, q) > 0}
    IN  Strip(SubSeq(full_text, 1, LookaheadFrom(low, 1, ahead) - 1))

NoContent == [description |-> "", examples |-> << >>, constraints |-> << >>]

parse_html_content(content) ==
    IF content = << >> THEN NoContent
    ELSE LET full_text == get_text(feed(ContentParserInit, content))
             low == Lower(full_text)
         IN  [description |-> DescriptionOf(full_text, low),
              examples |->
                  LET groups == ExampleMatches(full_text, low, 1)
                  IN  SelectSeq([k \in 1..Len(groups) |-> ExampleOf(groups[k])],
                                NonEmptyExample),
              constraints |-> ConstraintsOf(full_text, low)]

(* Contents: a description, example blocks numbered in source order, and a *)
(* constraints block, laid out as one run of text after the description    *)
(* ("inline"), as one paragraph each ("paragraphs"), or with every example *)
(* heading in a <p><strong> and its body in a <pre> ("pre").               *)

NoDescription == [events |-> << >>, text |-> ""]
PlainDescription ==
    [events |-> << StartTag("p"), Data("Find X"), EndTag("p") >>, text |-> "Find X"]
StrongDescription ==
    [events |-> << StartTag("p"), Data("Find "), StartTag("strong"), Data("X"),
                   EndTag("strong"), EndTag("p") >>,
     text |-> "Find **X**"]
ContentDescriptions == {NoDescription, PlainDescription, StrongDescription}

ExampleBodies ==
    << [heading |-> "Example ", body |-> "Input: [1,2]\nOutput: 3"],
       [heading |-> "example ", body |-> "Input: 5\nOutput: 1\nExplanation: odd"],
       [heading |-> "Example ", body |-> "Input: 7\nExplanation: prime"],
       [heading |-> "EXAMPLE ", body |-> "see the figure"] >>

\* the example blocks of a content: at most MaxExamples of the bodies, in order
BlockChoices ==
    {picked \in SUBSET (1..Len(ExampleBodies)) : Cardinality(picked) <= MaxExamples}

RECURSIVE Ascending(_)
Ascending(picked) ==
    IF picked = {} THEN << >>
    ELSE LET least == Leftmost(picked) IN << least >> \o Ascending(picked \ {least})

NoConstraints == [text |-> "", plural |-> FALSE, lines |-> << >>]
ContentConstraints ==
    { NoConstraints,
      [text |-> "Constraints:\n- 1<=n<=100", plural |-> TRUE, lines |-> << "1<=n<=100" >>],
      [text |-> "constraints:\n* a>0\n-- b>0", plural |-> TRUE, lines |-> << "a>0", "b>0" >>],
      [text |-> "Constraint: n<5", plural |-> FALSE, lines |-> << "n<5" >>],
      [text |-> "Constraints:\n\n- a>0", plural |-> TRUE, lines |-> << >>] }

Layouts == {"inline", "paragraphs", "pre"}

ContentSources ==
    [description : ContentDescriptions, blocks : BlockChoices,
     constraints : ContentConstraints, layout : Layouts]

HeadingOf(source, k) ==
    ExampleBodies[Ascending(source.blocks)[k]].heading \o ToString(k) \o ":"
BodyOf(source, k) == ExampleBodies[Ascending(source.blocks)[k]].body

Paragraph1(text) == << StartTag("p"), Data(text), EndTag("p") >>

RECURSIVE Flatten(_)
Flatten(lists) == IF lists = << >> THEN << >> ELSE Head(lists) \o Flatten(Tail(lists))

RenderContent(source) ==
    LET count == Cardinality(source.blocks)
        texts == [k \in 1..count |-> HeadingOf(source, k) \o "\n" \o BodyOf(source, k)]
        tail == IF source.constraints.text = "" THEN << >>
                ELSE << source.constraints.text >>
        rest == Join(texts \o tail, "\n")
    IN  source.description.events \o
        CASE source.layout = "inline" ->
               IF rest = "" THEN << >> ELSE << Data(rest) >>
          [] source.layout = "paragraphs" ->
               Flatten([k \in 1..Len(texts \o tail) |-> Paragraph1((texts \o tail)[k])])
          [] source.layout = "pre" ->
               Flatten([k \in 1..count |->
                   << StartTag("p"), StartTag("strong"), Data(HeadingOf(source, k)),
                      EndTag("strong"), EndTag("p"),
                      StartTag("pre"), Data(BodyOf(source, k)), EndTag("pre") >>])
               \o Flatten([k \in 1..Len(tail) |-> Paragraph1(tail[k])])

NotParsed == [description |-> "?", examples |-> << >>, constraints |-> << >>]

SegmentIdle ==
    /\ content_source = [description |-> NoDescription, blocks |-> {},
                         constraints |-> NoConstraints, layout |-> "inline"]
    /\ html_content = << >>
    /\ content_parsed = NotParsed

SegmentInit ==
    /\ content_source \in ContentSources
    /\ html_content = RenderContent(content_source)
    /\ content_parsed = NotParsed

\* parsed = self.parse_html_content(details.get('content', ''))
ParseHtmlContent ==
    /\ content_parsed = NotParsed
    /\ content_parsed' = parse_html_content(html_content)
    /\ UNCHANGED << content_source, html_content >>
    /\ UNCHANGED notSegmentVars

-----------------------------------------------------------------------------
(* One run of a seeding script: main up to the loop, MongoDBClient.connect, *)
(* the database calls of the loop body, and the exit of the process        *)

(* An ObjectId is a positive integer.  ObjectId() and the _id the server   *)
(* gives an inserted document are fresh: oid_counter is the next one.      *)
(* A user document is [_id, email]; a problem document is                  *)
(* [source, createdBy].  db_calls is the set of database operations the    *)
(* current run has made.                                                   *)

MaxObjectIds == 2
MaxRunBatch == 2
MaxDocs == 1

\* the email the system user is looked up by
SentinelEmail(sc) ==
    IF sc = "codeforces" THEN "system@codeforces.scraper" ELSE "system@leetcode.scraper"

\* users.find_one({'email': email}): None or the first matching document
FindAuthor(users, email) ==
    LET hits == {k \in 1..Len(users) : users[k].email = email}
    IN  IF hits = {} THEN None
        ELSE Some(users[CHOOSE k \in hits : \A j \in hits : k <= j])

\* exit status of the process when main returns
ExitCodeOnReturn == 0
\* exit status of sys.exit(1)
ExitCodeOnSysExit == 1

\* if not config.dry_run: db_client = MongoDBClient(...); db_client.connect()
ConnectsToDbAlways(dr) == TRUE
ConnectsToDb(dr) == ~dr

RunIdle ==
    /\ run_script = "codeforces"
    /\ run_dry = FALSE
    /\ run_pc = "closed"
    /\ run_left = 0
    /\ users_collection = <<>>
    /\ oid_counter = 1
    /\ system_user_id = None
    /\ db_calls = {}
    /\ problem_docs = <<>>
    /\ exit_code = None
    /\ exit_cause = "none"
    /\ run_passed = 0
    /\ run_success = 0

RunInit ==
    /\ run_script = "codeforces"
    /\ run_dry = FALSE
    /\ run_pc = "exited"
    /\ run_left = 0
    /\ users_collection = <<>>
    /\ oid_counter = 1
    /\ system_user_id = None
    /\ db_calls = {}
    /\ problem_docs = <<>>
    /\ exit_code = None
    /\ exit_cause = "none"
    /\ run_passed = 0
    /\ run_success = 0

\* a new process: parsed arguments, a fresh logger, no db_client yet
NewProcess(sc, dr) ==
    /\ run_pc = "exited"
    /\ run_script' = sc
    /\ run_dry' = dr
    /\ system_user_id' = None
    /\ db_calls' = {}
    /\ run_passed' = 0
    /\ run_success' = 0
    /\ UNCHANGED <<users_collection, oid_counter, problem_docs, notRunVars>>

\* if not config.validate(): sys.exit(1)
ConfigInvalid ==
    /\ \E sc \in Scripts, dr \in BOOLEAN : NewProcess(sc, dr)
    /\ run_left' = 0
    /\ run_pc' = "exited"
    /\ exit_code' = Some(ExitCodeOnSysExit)
    /\ exit_cause' = "config"

\* the fetch gave nothing: sys.exit(1) inside the try block (SystemExit is
\* not an Exception: only the finally clause runs)
NothingFetched ==
    /\ \E sc \in Scripts, dr \in BOOLEAN : NewProcess(sc, dr)
    /\ run_left' = 0
    /\ run_pc' = "exited"
    /\ exit_code' = Some(ExitCodeOnSysExit)
    /\ exit_cause' = "no_problems"

\* main reaches "Connect to MongoDB (unless dry run)" with n problems to process
ReachedConnect ==
    /\ \E sc \in Scripts, dr \in BOOLEAN, n \in 0..MaxRunBatch :
        /\ sc = "leetcode" => n >= 1
        /\ NewProcess(sc, dr)
        /\ run_left' = n
    /\ run_pc' = "connect"
    /\ exit_code' = None
    /\ exit_cause' = "none"

\* dry run: db_client stays None
NoConnection ==
    /\ run_pc = "connect"
    /\ ~ConnectsToDb(run_dry)
    /\ run_pc' = "loop"
    /\ UNCHANGED <<run_script, run_dry, run_left, users_collection, oid_counter,
                   system_user_id, db_calls, problem_docs, exit_code, exit_cause,
                   run_passed, run_success, notRunVars>>

\* connect: ping raises ConnectionFailure, connect logs and re-raises, main's
\* "except Exception" logs "Fatal error" and prints the traceback, the finally
\* clause prints the summary, main returns
ConnectFailed ==
    /\ run_pc = "connect"
    /\ ConnectsToDb(run_dry)
    /\ db_calls' = db_calls \cup {"connect"}
    /\ run_pc' = "exited"
    /\ exit_code' = Some(ExitCodeOnReturn)
    /\ exit_cause' = "connect_failed"
    /\ UNCHANGED <<run_script, run_dry, run_left, users_collection, oid_counter,
                   system_user_id, problem_docs, run_passed, run_success,
                   notRunVars>>

\* connect, _get_system_user_id: find_one found the system user
ConnectFoundAuthor ==
    /\ run_pc = "connect"
    /\ ConnectsToDb(run_dry)
    /\ FindAuthor(users_collection, SentinelEmail(run_script)) # None
    /\ system_user_id' =
            Some(FindAuthor(users_collection, SentinelEmail(run_script))[1]._id)
    /\ db_calls' = db_calls \cup {"connect", "find_author"}
    /\ run_pc' = "loop"
    /\ UNCHANGED <<run_script, run_dry, run_left, users_collection, oid_counter,
                   problem_docs, exit_code, exit_cause, run_passed, run_success,
                   notRunVars>>

\* connect, _get_system_user_id: no system user yet, insert_one stores one
ConnectCreatedAuthor ==
    /\ run_pc = "connect"
    /\ ConnectsToDb(run_dry)
    /\ FindAuthor(users_collection, SentinelEmail(run_script)) = None
    /\ oid_counter <= MaxObjectIds
    /\ users_collection' = Append(users_collection,
            [_id |-> oid_counter, email |-> SentinelEmail(run_script)])
    /\ system_user_id' = Some(oid_counter)
    /\ oid_counter' = oid_counter + 1
    /\ db_calls' = db_calls \cup {"connect", "find_author", "create_author"}
    /\ run_pc' = "loop"
    /\ UNCHANGED <<run_script, run_dry, run_left, problem_docs, exit_code,
                   exit_cause, run_passed, run_success, notRunVars>>

\* connect, _get_system_user_id: find_one or insert_one raised:
\* except Exception: return ObjectId()
ConnectAuthorFailed ==
    /\ run_pc = "connect"
    /\ ConnectsToDb(run_dry)
    /\ oid_counter <= MaxObjectIds
    /\ system_user_id' = Some(oid_counter)
    /\ oid_counter' = oid_counter + 1
    /\ db_calls' = db_calls \cup {"connect", "find_author"}
    /\ run_pc' = "loop"
    /\ UNCHANGED <<run_script, run_dry, run_left, users_collection, problem_docs,
                   exit_code, exit_cause, run_passed, run_success, notRunVars>>

RunAtProblem == run_pc = "loop" /\ run_left > 0

\* the problem in hand is tallied before the exists check: no detail,
\* transform returned None, validation failed, or the body raised
ProblemNotPassed ==
    /\ RunAtProblem
    /\ run_left' = run_left - 1
    /\ UNCHANGED <<run_script, run_dry, run_pc, users_collection, oid_counter,
                   system_user_id, db_calls, problem_docs, exit_code, exit_cause,
                   run_passed, run_success, notRunVars>>

\* dry run, the record passed validation: "Would insert", success
DryRunTallied ==
    /\ RunAtProblem
    /\ run_dry
    /\ run_left' = run_left - 1
    /\ run_passed' = run_passed + 1
    /\ run_success' = run_success + 1
    /\ UNCHANGED <<run_script, run_dry, run_pc, users_collection, oid_counter,
                   system_user_id, db_calls, problem_docs, exit_code, exit_cause,
                   notRunVars>>

\* the record passed validation, problem_exists found it: skipped
ProblemExisted ==
    /\ RunAtProblem
    /\ ~run_dry
    /\ problem_docs # <<>>
    /\ db_calls' = db_calls \cup {"problem_exists"}
    /\ run_left' = run_left - 1
    /\ run_passed' = run_passed + 1
    /\ UNCHANGED <<run_script, run_dry, run_pc, users_collection, oid_counter,
                   system_user_id, problem_docs, exit_code, exit_cause,
                   run_success, notRunVars>>

\* insert_problem stamps createdBy = self.system_user_id and stores the record
ProblemInserted ==
    /\ RunAtProblem
    /\ ~run_dry
    /\ Len(problem_docs) < MaxDocs
    /\ problem_docs' = Append(problem_docs,
            [source |-> run_script, createdBy |-> system_user_id[1]])
    /\ db_calls' = db_calls \cup {"problem_exists", "insert_problem"}
    /\ run_left' = run_left - 1
    /\ run_passed' = run_passed + 1
    /\ run_success' = run_success + 1
    /\ UNCHANGED <<run_script, run_dry, run_pc, users_collection, oid_counter,
                   system_user_id, exit_code, exit_cause, notRunVars>>

\* insert_problem returned None (DuplicateKeyError or another exception)
ProblemInsertFailed ==
    /\ RunAtProblem
    /\ ~run_dry
    /\ db_calls' = db_calls \cup {"problem_exists", "insert_problem"}
    /\ run_left' = run_left - 1
    /\ run_passed' = run_passed + 1
    /\ UNCHANGED <<run_script, run_dry, run_pc, users_collection, oid_counter,
                   system_user_id, problem_docs, exit_code, exit_cause,
                   run_success, notRunVars>>

\* except KeyboardInterrupt: "interrupted by user", summary, main returns
RunInterrupted ==
    /\ run_pc \in {"connect", "loop"}
    /\ run_pc' = "exited"
    /\ exit_code' = Some(ExitCodeOnReturn)
    /\ exit_cause' = "interrupted"
    /\ UNCHANGED <<run_script, run_dry, run_left, users_collection, oid_counter,
                   system_user_id, db_calls, problem_docs, run_passed,
                   run_success, notRunVars>>

\* the loop is over: disconnect, summary, main returns
RunCompleted ==
    /\ run_pc = "loop"
    /\ run_left = 0
    /\ run_pc' = "exited"
    /\ exit_code' = Some(ExitCodeOnReturn)
    /\ exit_cause' = "completed"
    /\ UNCHANGED <<run_script, run_dry, run_left, users_collection, oid_counter,
                   system_user_id, db_calls, problem_docs, run_passed,
                   run_success, notRunVars>>

-----------------------------------------------------------------------------
(* The path of one problem through a seeding main loop: transform,         *)
(* validate, insert_problem                                                *)

(* gate_record is problem_data with the four keys the validator reads, in  *)
(* the form the validator model takes; gate_inserted is the record handed  *)
(* to the last insert_problem call of the run, or None.                    *)

\* ', '.join(tags) if tags else alt
TagsOr(ts, alt) == IF ts = <<>> THEN alt ELSE Join(ts, ", ")

\* ProblemTransformer._generate_description, seed_problems_api.py
_generate_description(name, ts, r, contest_id, index) ==
    LET cid == ToString(contest_id)
        rated == r # None /\ r[1] # 0
        parts ==
            << "# " \o name \o "\n",
               "## Problem Information\n",
               "- **Source**: Codeforces Problem " \o cid \o index,
               "- **Difficulty Rating**: "
                    \o (IF rated THEN ToString(r[1]) ELSE "Unrated"),
               "- **Tags**: " \o TagsOr(ts, "None") \o "\n",
               "## Problem Statement\n",
               "This is problem " \o index \o " from Codeforces contest " \o cid \o ".",
               "The problem is tagged with: " \o TagsOr(ts, "no specific tags") \o ".\n" >>
            \o (IF ~rated THEN <<>>
                ELSE IF r[1] < 1200
                THEN <<"This is considered an **easy** problem, suitable for beginners.">>
                ELSE IF r[1] <= 1600
                THEN <<"This is considered a **medium** difficulty problem.">>
                ELSE <<"This is considered a **hard** problem, suitable for advanced programmers.">>)
            \o << "\n## Full Problem Statement\n",
                  "For the complete problem statement, input/output format, examples, and constraints, ",
                  "please visit the original problem on Codeforces:\n",
                  "[View Problem on Codeforces](https://codeforces.com/problemset/problem/"
                        \o cid \o "/" \o index \o ")\n",
                  "## Note\n",
                  "This problem was imported from Codeforces using their official API. ",
                  "The full problem statement, test cases, and examples are available on the Codeforces website." >>
    IN  Join(parts, "\n")

\* the keys of the record ProblemTransformer.transform builds that the
\* validator reads
ApiRecord(name, ts, r, contest_id, index) ==
    [title       |-> Some(name),
     description |-> Some(_generate_description(name, ts, r, contest_id, index)),
     difficulty  |-> Some(map_rating_api(r)),
     externalId  |-> Some(ToString(contest_id) \o index)]

GateNames == {"", "A", "Theatre Square"}
GateTags == {<<>>, <<"">>, <<"dp">>, <<"math", "greedy">>}
GateRatings == {None, Some(0), Some(800), Some(1200), Some(1600), Some(MaxRating)}
GateContestIds == {1, 1999}
GateIndexes == {"A", "B1"}

NoGateRecord == [title |-> None, description |-> None, difficulty |-> None,
                 externalId |-> None]

\* is_valid, errors = validator.validate(problem_data)
validate(sc, rec) ==
    IF sc = "codeforces" THEN validate_api(rec) ELSE validate_leetcode(rec)

\* if not is_valid: warning, update_stats('failed'), continue
PassedValidationAlways(v) == TRUE
PassedValidation(v) == v.valid

GateIdle ==
    /\ gate_script = "codeforces"
    /\ gate_pc = "closed"
    /\ gate_record = NoGateRecord
    /\ gate_validation = None
    /\ gate_inserted = None

GateInit ==
    /\ gate_script = "codeforces"
    /\ gate_pc = "start"
    /\ gate_record = NoGateRecord
    /\ gate_validation = None
    /\ gate_inserted = None

\* seed_problems_api.py: transformer.transform returned a record
TransformedApi ==
    /\ gate_pc = "start"
    /\ gate_script' = "codeforces"
    /\ \E name \in GateNames, ts \in GateTags, r \in GateRatings,
          contest_id \in GateContestIds, index \in GateIndexes :
            gate_record' = ApiRecord(name, ts, r, contest_id, index)
    /\ gate_validation' = None
    /\ gate_inserted' = None
    /\ gate_pc' = "transformed"
    /\ UNCHANGED notGateVars

\* seed_leetcode.py: transformer.transform returned a record (any title,
\* description, difficulty and externalId text)
TransformedLeetCode ==
    /\ gate_pc = "start"
    /\ gate_script' = "leetcode"
    /\ gate_record' \in [title : ValTitles \ {None},
                         description : ValDescriptions \ {None},
                         difficulty : ValDifficulties \ {None},
                         externalId : {Some(""), Some("leetcode_1")}]
    /\ gate_validation' = None
    /\ gate_inserted' = None
    /\ gate_pc' = "transformed"
    /\ UNCHANGED notGateVars

\* validator.validate(problem_data)
Validated ==
    /\ gate_pc = "transformed"
    /\ gate_validation' = Some(validate(gate_script, gate_record))
    /\ gate_pc' = "validated"
    /\ UNCHANGED <<gate_script, gate_record, gate_inserted, notGateVars>>

\* validation failed: update_stats('failed'); continue
GateRejected ==
    /\ gate_pc = "validated"
    /\ ~PassedValidation(gate_validation[1])
    /\ gate_pc' = "start"
    /\ UNCHANGED <<gate_script, gate_record, gate_validation, gate_inserted,
                   notGateVars>>

\* the record exists already (or the run is a dry run): no insert_problem call
GateNotInserted ==
    /\ gate_pc = "validated"
    /\ PassedValidation(gate_validation[1])
    /\ gate_pc' = "start"
    /\ UNCHANGED <<gate_script, gate_record, gate_validation, gate_inserted,
                   notGateVars>>

\* result = db_client.insert_problem(problem_data)
InsertCalled ==
    /\ gate_pc = "validated"
    /\ PassedValidation(gate_validation[1])
    /\ gate_inserted' = Some(gate_record)
    /\ gate_pc' = "start"
    /\ UNCHANGED <<gate_script, gate_record, gate_validation, notGateVars>>

-----------------------------------------------------------------------------
(* The loops that fetch the details of one problem after another:          *)
(* scrape_codeforces_full.py and scrape_leetcode_complete.py               *)
(* scrape_problems, seed_leetcode.py main with fetch_problem_detail        *)

(* Time is in whole seconds.  since_last is the time that has passed since *)
(* the response (or the error) of the last detail request; statements      *)
(* other than time.sleep take no time, and time.sleep(d) returns after d   *)
(* seconds or later.  last_gap is since_last at the moment the request in  *)
(* flight was sent.  An entry of scrape_todo is "detail" (a detail request *)
(* is made for it) or "skip" (the loop body leaves before the request: no  *)
(* contest id or index, a premium problem, no titleSlug).                  *)

MaxTodo == 3
MaxOversleep == 1

Scrapers == {"scrape_codeforces_full", "scrape_leetcode_complete", "seed_leetcode"}

\* time.sleep(2) | time.sleep(1) | time.sleep(self.delay), delay_seconds = 1.0
ScriptDelay(sc) == IF sc = "scrape_codeforces_full" THEN 2 ELSE 1

\* fetch_problem_detail sleeps before its request, the scrapers sleep at the
\* end of the loop body
SleepsBeforeRequest(sc) == sc = "seed_leetcode"

\* the scrapers' time.sleep is outside `if details:` / `if problem:`
SleepsAfterOnlyOnSuccess(ok) == ok
SleepsAfterRequest(ok) == TRUE

\* for problem in problems: if count >= limit: break
LoopOver(sc) ==
    \/ scrape_todo = <<>>
    \/ ~SleepsBeforeRequest(sc) /\ scrape_count >= scrape_limit

RECURSIVE SeqsUpTo(_, _)
SeqsUpTo(S, n) ==
    IF n = 0 THEN {<<>>}
    ELSE LET shorter == SeqsUpTo(S, n - 1)
         IN  shorter \cup {Append(q, x) : q \in shorter, x \in S}

ScrapeIdle ==
    /\ scrape_script = "scrape_codeforces_full"
    /\ scrape_pc = "closed"
    /\ scrape_todo = <<>>
    /\ scrape_count = 0
    /\ scrape_limit = 1
    /\ in_flight = 0
    /\ since_last = 0
    /\ last_gap = 0
    /\ requests_made = 0
    /\ prev_failed = FALSE

ScrapeInit ==
    /\ scrape_script = "scrape_codeforces_full"
    /\ scrape_pc = "done"
    /\ scrape_todo = <<>>
    /\ scrape_count = 0
    /\ scrape_limit = 1
    /\ in_flight = 0
    /\ since_last = 0
    /\ last_gap = 0
    /\ requests_made = 0
    /\ prev_failed = FALSE

\* the list is fetched; scraped = [], count = 0
StartScrape ==
    /\ scrape_pc = "done"
    /\ \E sc \in Scrapers, limit \in 1..MaxTodo,
          todo \in SeqsUpTo({"detail", "skip"}, MaxTodo) \ {<<>>} :
        /\ scrape_script' = sc
        /\ scrape_limit' = limit
        /\ scrape_todo' = todo
    /\ scrape_count' = 0
    /\ requests_made' = 0
    /\ since_last' = 0
    /\ last_gap' = 0
    /\ prev_failed' = FALSE
    /\ scrape_pc' = "top"
    /\ UNCHANGED <<in_flight, notScrapeVars>>

\* break, or the list is exhausted
LoopEnds ==
    /\ scrape_pc = "top"
    /\ LoopOver(scrape_script)
    /\ scrape_pc' = "done"
    /\ UNCHANGED <<scrape_script, scrape_todo, scrape_count, scrape_limit,
                   in_flight, since_last, last_gap, requests_made, prev_failed,
                   notScrapeVars>>

\* continue before the request (the seeding loop: the body raised before
\* fetch_problem_detail)
SkipEntry ==
    /\ scrape_pc = "top"
    /\ ~LoopOver(scrape_script)
    /\ Head(scrape_todo) = "skip"
    /\ scrape_todo' = Tail(scrape_todo)
    /\ UNCHANGED <<scrape_script, scrape_pc, scrape_count, scrape_limit,
                   in_flight, since_last, last_gap, requests_made, prev_failed,
                   notScrapeVars>>

\* the scrapers go straight to the request
BeginDetail ==
    /\ scrape_pc = "top"
    /\ ~LoopOver(scrape_script)
    /\ Head(scrape_todo) = "detail"
    /\ ~SleepsBeforeRequest(scrape_script)
    /\ scrape_pc' = "send"
    /\ UNCHANGED <<scrape_script, scrape_todo, scrape_count, scrape_limit,
                   in_flight, since_last, last_gap, requests_made, prev_failed,
                   notScrapeVars>>

\* fetch_problem_detail: time.sleep(self.delay)  # Rate limiting
SleepBefore ==
    /\ scrape_pc = "top"
    /\ ~LoopOver(scrape_script)
    /\ Head(scrape_todo) = "detail"
    /\ SleepsBeforeRequest(scrape_script)
    /\ \E extra \in 0..MaxOversleep :
        since_last' = since_last + ScriptDelay(scrape_script) + extra
    /\ scrape_pc' = "send"
    /\ UNCHANGED <<scrape_script, scrape_todo, scrape_count, scrape_limit,
                   in_flight, last_gap, requests_made, prev_failed,
                   notScrapeVars>>

\* session.get(url) / session.post(graphql): the request leaves
SendRequest ==
    /\ scrape_pc = "send"
    /\ in_flight' = in_flight + 1
    /\ requests_made' = requests_made + 1
    /\ last_gap' = since_last
    /\ scrape_pc' = "awaiting"
    /\ UNCHANGED <<scrape_script, scrape_todo, scrape_count, scrape_limit,
                   since_last, prev_failed, notScrapeVars>>

\* the response arrives or the request fails (except Exception: return {} /
\* None); a problem with details is appended and counted
ResponseArrives ==
    /\ scrape_pc = "awaiting"
    /\ \E ok \in BOOLEAN :
        /\ prev_failed' = ~ok
        /\ scrape_count' = IF ok THEN scrape_count + 1 ELSE scrape_count
        /\ scrape_pc' = IF ~SleepsBeforeRequest(scrape_script) /\ SleepsAfterRequest(ok)
                        THEN "sleep" ELSE "top"
    /\ in_flight' = in_flight - 1
    /\ since_last' = 0
    /\ scrape_todo' = Tail(scrape_todo)
    /\ UNCHANGED <<scrape_script, scrape_limit, last_gap, requests_made,
                   notScrapeVars>>

\* "Be respectful - wait between requests": time.sleep(2) / time.sleep(1)
SleepAfter ==
    /\ scrape_pc = "sleep"
    /\ \E extra \in 0..MaxOversleep :
        since_last' = since_last + ScriptDelay(scrape_script) + extra
    /\ scrape_pc' = "top"
    /\ UNCHANGED <<scrape_script, scrape_todo, scrape_count, scrape_limit,
                   in_flight, last_gap, requests_made, prev_failed,
                   notScrapeVars>>

-----------------------------------------------------------------------------
(* LeetCode ProblemTransformer.transform: the test cases and the flags of  *)
(* the record (the description is modelled with the padding above)         *)

(* lct_detail is the question dict of the GraphQL response with the keys   *)
(* title, difficulty, questionFrontendId and exampleTestcases; a value of  *)
(* None is a JSON null.                                                    *)

MaxExampleLines == 8

\* _parse_test_cases
_parse_test_cases(example_tests) ==
    IF example_tests = None \/ example_tests[1] = "" THEN <<>>
    ELSE LET lines == Split(Strip(example_tests[1]), "\n")
         IN  [k \in 1..(Len(lines) \div 2) |->
                [input |-> Strip(lines[2 * k - 1]),
                 output |-> Strip(lines[2 * k]),
                 explanation |-> "Example " \o ToString(k)]]

\* 'examples': test_cases[:3] if test_cases else []
ExamplesUncut(test_cases) == test_cases
ExamplesShown(test_cases) == SubSeq(test_cases, 1, Min(3, Len(test_cases)))

\* transform: None (an exception was caught) or Some(problem_data)
transform_leetcode(detail) ==
    IF detail.difficulty = None THEN None      \* None.lower(): AttributeError
    ELSE LET test_cases == _parse_test_cases(detail.exampleTestcases)
         IN  Some([title |-> detail.title,
                   difficulty |-> Lower(detail.difficulty[1]),
                   examples |-> ExamplesShown(test_cases),
                   visibleTestCases |-> test_cases,
                   hiddenTestCases |-> <<>>,
                   externalId |-> "leetcode_" \o detail.questionFrontendId,
                   isPublic |-> TRUE,
                   isActive |-> TRUE,
                   isVerified |-> FALSE])

\* line i of an exampleTestcases text, some with blanks around them
ExampleLine(i) ==
    LET text == IF i % 2 = 1 THEN "[" \o ToString(i) \o "," \o ToString(i + 1) \o "]"
                ELSE ToString(i)
    IN  IF i % 3 = 0 THEN " " \o text \o " " ELSE text

ExampleText(n) == Join([i \in 1..n |-> ExampleLine(i)], "\n")

ExampleTexts ==
    {None, Some("  ")}
        \cup {Some(ExampleText(n)) : n \in 0..MaxExampleLines}
        \cup {Some("\n" \o ExampleText(n) \o "\n") : n \in 1..MaxExampleLines}

LctDetails ==
    [title : {"Two Sum", "Add Two Numbers"},
     difficulty : {None, Some("Easy"), Some("Medium"), Some("Hard")},
     questionFrontendId : {"1", "2"},
     exampleTestcases : ExampleTexts]

LctIdle ==
    /\ lct_detail = [title |-> "", difficulty |-> None, questionFrontendId |-> "",
                     exampleTestcases |-> None]
    /\ lct_called = FALSE
    /\ lct_result = None

LctInit ==
    /\ lct_detail \in LctDetails
    /\ lct_called = FALSE
    /\ lct_result = None

\* problem_data = transformer.transform(detail)
TransformLeetCode ==
    /\ ~lct_called
    /\ lct_called' = TRUE
    /\ lct_result' = transform_leetcode(lct_detail)
    /\ UNCHANGED <<lct_detail, notLctVars>>

-----------------------------------------------------------------------------
(* CodeforcesFetcher.fetch_problems, scrape_codeforces.py                  *)

(* fp_problems is the list the API returned; a problem is [contestId,      *)
(* index, rating, tags] with None for a key the dict lacks.  fp_pos is     *)
(* the number of list entries the loop has examined, fp_fetched the        *)
(* fetched_problems list and fp_positions the list positions its entries   *)
(* came from.  The three filters are None when the argument is omitted.    *)

MaxList == 3
MaxLimit == 2

\* the truth value Python gives an Optional[int]
Truthy(opt) == opt # None /\ opt[1] # 0

\* process_problem: None, or the problem data built from the API entry
process_problem(problem) ==
    IF ~Truthy(problem.contestId) \/ problem.index = "" THEN None
    ELSE Some([contestId |-> problem.contestId[1], index |-> problem.index,
               rating |-> problem.rating, tags |-> problem.tags])

\* if min_rating and (not rating or rating < min_rating): continue
BelowMin(problem, min_rating) ==
    /\ Truthy(min_rating)
    /\ IF ~Truthy(problem.rating) THEN TRUE ELSE problem.rating[1] < min_rating[1]

\* if max_rating and (not rating or rating > max_rating): continue
AboveMax(problem, max_rating) ==
    /\ Truthy(max_rating)
    /\ IF ~Truthy(problem.rating) THEN TRUE ELSE problem.rating[1] > max_rating[1]

\* if tags and not any(tag in problem_tags for tag in tags): continue
TagsMiss(problem, ts) ==
    /\ ts # None /\ ts[1] # <<>>
    /\ ~\E i \in 1..Len(ts[1]), j \in 1..Len(problem.tags) : ts[1][i] = problem.tags[j]

FilteredOut(problem) ==
    \/ BelowMin(problem, fp_min_rating)
    \/ AboveMax(problem, fp_max_rating)
    \/ TagsMiss(problem, fp_tags)

\* if count >= limit: break
LimitReachedLate == Len(fp_fetched) > fp_limit
LimitReached == Len(fp_fetched) >= fp_limit

ApiProblems ==
    { [contestId |-> Some(1), index |-> "A", rating |-> Some(800), tags |-> <<"dp">>],
      [contestId |-> Some(2), index |-> "B", rating |-> Some(1500), tags |-> <<"greedy", "math">>],
      [contestId |-> Some(3), index |-> "C", rating |-> None, tags |-> <<"math">>],
      [contestId |-> None, index |-> "D", rating |-> Some(1200), tags |-> <<"dp">>],
      [contestId |-> Some(5), index |-> "E", rating |-> Some(1200), tags |-> <<>>] }

RatingBounds == {None, Some(0), Some(1200)}
TagFilters == {None, Some(<<>>), Some(<<"dp", "math">>)}

FpIdle ==
    /\ fp_problems = <<>>
    /\ fp_limit = 0
    /\ fp_min_rating = None
    /\ fp_max_rating = None
    /\ fp_tags = None
    /\ fp_pos = 0
    /\ fp_fetched = <<>>
    /\ fp_positions = <<>>
    /\ fp_pc = "closed"

\* fetch_problems is called and fetch_problem_list has answered
FpInit ==
    /\ fp_problems \in SeqsUpTo(ApiProblems, MaxList)
    /\ fp_limit \in 0..MaxLimit
    /\ fp_min_rating \in RatingBounds
    /\ fp_max_rating \in RatingBounds
    /\ fp_tags \in TagFilters
    /\ fp_pos = 0
    /\ fp_fetched = <<>>
    /\ fp_positions = <<>>
    /\ fp_pc = "scan"

NextProblem == fp_problems[fp_pos + 1]
Scanning == fp_pc = "scan" /\ fp_pos < Len(fp_problems)

\* if count >= limit: break; return fetched_problems
ScanBreak ==
    /\ Scanning
    /\ LimitReached
    /\ fp_pc' = "returned"
    /\ UNCHANGED <<fp_problems, fp_limit, fp_min_rating, fp_max_rating, fp_tags,
                   fp_pos, fp_fetched, fp_positions, notFpVars>>

\* a filter rejects the problem: continue
ScanFiltered ==
    /\ Scanning
    /\ ~LimitReached
    /\ FilteredOut(NextProblem)
    /\ fp_pos' = fp_pos + 1
    /\ UNCHANGED <<fp_problems, fp_limit, fp_min_rating, fp_max_rating, fp_tags,
                   fp_fetched, fp_positions, fp_pc, notFpVars>>

\* process_problem returned None: nothing is appended
ScanNoId ==
    /\ Scanning
    /\ ~LimitReached
    /\ ~FilteredOut(NextProblem)
    /\ process_problem(NextProblem) = None
    /\ fp_pos' = fp_pos + 1
    /\ UNCHANGED <<fp_problems, fp_limit, fp_min_rating, fp_max_rating, fp_tags,
                   fp_fetched, fp_positions, fp_pc, notFpVars>>

\* fetched_problems.append(problem_data); count += 1
ScanCollected ==
    /\ Scanning
    /\ ~LimitReached
    /\ ~FilteredOut(NextProblem)
    /\ process_problem(NextProblem) # None
    /\ fp_fetched' = Append(fp_fetched, process_problem(NextProblem)[1])
    /\ fp_positions' = Append(fp_positions, fp_pos + 1)
    /\ fp_pos' = fp_pos + 1
    /\ UNCHANGED <<fp_problems, fp_limit, fp_min_rating, fp_max_rating, fp_tags,
                   fp_pc, notFpVars>>

\* the list is exhausted (or was empty): return fetched_problems
ScanExhausted ==
    /\ fp_pc = "scan"
    /\ fp_pos = Len(fp_problems)
    /\ fp_pc' = "returned"
    /\ UNCHANGED <<fp_problems, fp_limit, fp_min_rating, fp_max_rating, fp_tags,
                   fp_pos, fp_fetched, fp_positions, notFpVars>>

-----------------------------------------------------------------------------
(* Specifications *)

SpecRatingInit == RatingInit /\ CatIdle /\ PadIdle /\ FetchIdle /\ SeedIdle /\ ValidateIdle /\ MarkdownIdle /\ ParseIdle /\ SegmentIdle /\ RunIdle /\ GateIdle /\ ScrapeIdle /\ LctIdle /\ FpIdle
SpecRatingNext == MapRatingScraper \/ MapRatingApi
SpecRating == SpecRatingInit /\ [][SpecRatingNext]_vars

SpecCategoryInit == RatingIdle /\ CatInit /\ PadIdle /\ FetchIdle /\ SeedIdle /\ ValidateIdle /\ MarkdownIdle /\ ParseIdle /\ SegmentIdle /\ RunIdle /\ GateIdle /\ ScrapeIdle /\ LctIdle /\ FpIdle
SpecCategoryNext == TransformCodeforces \/ MapCategoryLeetCode
SpecCategory == SpecCategoryInit /\ [][SpecCategoryNext]_vars

SpecPadInit == RatingIdle /\ CatIdle /\ PadInit /\ FetchIdle /\ SeedIdle /\ ValidateIdle /\ MarkdownIdle /\ ParseIdle /\ SegmentIdle /\ RunIdle /\ GateIdle /\ ScrapeIdle /\ LctIdle /\ FpIdle
SpecPadNext == TransformKeep \/ PadEnter \/ PadLoop \/ PadReturn
SpecPad == SpecPadInit /\ [][SpecPadNext]_vars

SpecFetchInit == RatingIdle /\ CatIdle /\ PadIdle /\ FetchInit /\ SeedIdle /\ ValidateIdle /\ MarkdownIdle /\ ParseIdle /\ SegmentIdle /\ RunIdle /\ GateIdle /\ ScrapeIdle /\ LctIdle /\ FpIdle
SpecFetchNext ==
    \/ FetchProblem
    \/ AttemptBackoffStatus
    \/ AttemptNotFound
    \/ AttemptHttpError
    \/ AttemptSuccess
    \/ AttemptTimeout
    \/ AttemptConnectionError
    \/ AttemptRequestException
    \/ Exhausted
SpecFetch == SpecFetchInit /\ [][SpecFetchNext]_vars

SpecSeedInit == RatingIdle /\ CatIdle /\ PadIdle /\ FetchIdle /\ SeedInit /\ ValidateIdle /\ MarkdownIdle /\ ParseIdle /\ SegmentIdle /\ RunIdle /\ GateIdle /\ ScrapeIdle /\ LctIdle /\ FpIdle
SpecSeedNext ==
    \/ StartRun
    \/ DetailMissing
    \/ TransformNone
    \/ ValidationFailed
    \/ ProcessingRaised
    \/ Prepared
    \/ AlreadyExists
    \/ WouldInsert
    \/ NotFoundInDb
    \/ InsertStored
    \/ InsertDuplicate
    \/ InsertError
    \/ FinishRun
    \/ OtherWriter
SpecSeed == SpecSeedInit /\ [][SpecSeedNext]_vars

\* one writer: the runs of the two scripts, which may be interrupted
SpecBatchInit == SpecSeedInit
SpecBatchNext ==
    \/ StartRun
    \/ DetailMissing
    \/ TransformNone
    \/ ValidationFailed
    \/ ProcessingRaised
    \/ Prepared
    \/ AlreadyExists
    \/ WouldInsert
    \/ NotFoundInDb
    \/ InsertStored
    \/ InsertError
    \/ FinishRun
    \/ Interrupted
SpecBatch == SpecBatchInit /\ [][SpecBatchNext]_vars

SpecValidateInit == RatingIdle /\ CatIdle /\ PadIdle /\ FetchIdle /\ SeedIdle /\ ValidateInit /\ MarkdownIdle /\ ParseIdle /\ SegmentIdle /\ RunIdle /\ GateIdle /\ ScrapeIdle /\ LctIdle /\ FpIdle
SpecValidateNext == ValidateApi \/ ValidateLeetCode
SpecValidate == SpecValidateInit /\ [][SpecValidateNext]_vars

SpecMarkdownInit == RatingIdle /\ CatIdle /\ PadIdle /\ FetchIdle /\ SeedIdle /\ ValidateIdle /\ MarkdownInit /\ ParseIdle /\ SegmentIdle /\ RunIdle /\ GateIdle /\ ScrapeIdle /\ LctIdle /\ FpIdle
SpecMarkdownNext == Convert
SpecMarkdown == SpecMarkdownInit /\ [][SpecMarkdownNext]_vars

SpecParseInit == RatingIdle /\ CatIdle /\ PadIdle /\ FetchIdle /\ SeedIdle /\ ValidateIdle /\ MarkdownIdle /\ ParseInit /\ SegmentIdle /\ RunIdle /\ GateIdle /\ ScrapeIdle /\ LctIdle /\ FpIdle
SpecParseNext == Parse \/ ParseFailed
SpecParse == SpecParseInit /\ [][SpecParseNext]_vars

SpecSegmentInit == RatingIdle /\ CatIdle /\ PadIdle /\ FetchIdle /\ SeedIdle /\ ValidateIdle /\ MarkdownIdle /\ ParseIdle /\ SegmentInit /\ RunIdle /\ GateIdle /\ ScrapeIdle /\ LctIdle /\ FpIdle
SpecSegmentNext == ParseHtmlContent
SpecSegment == SpecSegmentInit /\ [][SpecSegmentNext]_vars

SpecRunInit == RatingIdle /\ CatIdle /\ PadIdle /\ FetchIdle /\ SeedIdle /\ ValidateIdle /\ MarkdownIdle /\ ParseIdle /\ SegmentIdle /\ RunInit /\ GateIdle /\ ScrapeIdle /\ LctIdle /\ FpIdle
SpecRunNext ==
    \/ ConfigInvalid
    \/ NothingFetched
    \/ ReachedConnect
    \/ NoConnection
    \/ ConnectFailed
    \/ ConnectFoundAuthor
    \/ ConnectCreatedAuthor
    \/ ConnectAuthorFailed
    \/ ProblemNotPassed
    \/ DryRunTallied
    \/ ProblemExisted
    \/ ProblemInserted
    \/ ProblemInsertFailed
    \/ RunInterrupted
    \/ RunCompleted
SpecRun == SpecRunInit /\ [][SpecRunNext]_vars

SpecGateInit == RatingIdle /\ CatIdle /\ PadIdle /\ FetchIdle /\ SeedIdle /\ ValidateIdle /\ MarkdownIdle /\ ParseIdle /\ SegmentIdle /\ RunIdle /\ GateInit /\ ScrapeIdle /\ LctIdle /\ FpIdle
SpecGateNext ==
    \/ TransformedApi
    \/ TransformedLeetCode
    \/ Validated
    \/ GateRejected
    \/ GateNotInserted
    \/ InsertCalled
SpecGate == SpecGateInit /\ [][SpecGateNext]_vars

SpecScrapeInit == RatingIdle /\ CatIdle /\ PadIdle /\ FetchIdle /\ SeedIdle /\ ValidateIdle /\ MarkdownIdle /\ ParseIdle /\ SegmentIdle /\ RunIdle /\ GateIdle /\ ScrapeInit /\ LctIdle /\ FpIdle
SpecScrapeNext ==
    \/ StartScrape
    \/ LoopEnds
    \/ SkipEntry
    \/ BeginDetail
    \/ SleepBefore
    \/ SendRequest
    \/ ResponseArrives
    \/ SleepAfter
SpecScrape == SpecScrapeInit /\ [][SpecScrapeNext]_vars

SpecTransformInit == RatingIdle /\ CatIdle /\ PadIdle /\ FetchIdle /\ SeedIdle /\ ValidateIdle /\ MarkdownIdle /\ ParseIdle /\ SegmentIdle /\ RunIdle /\ GateIdle /\ ScrapeIdle /\ LctInit /\ FpIdle
SpecTransformNext == TransformLeetCode
SpecTransform == SpecTransformInit /\ [][SpecTransformNext]_vars

SpecFetchProblemsInit == RatingIdle /\ CatIdle /\ PadIdle /\ FetchIdle /\ SeedIdle /\ ValidateIdle /\ MarkdownIdle /\ ParseIdle /\ SegmentIdle /\ RunIdle /\ GateIdle /\ ScrapeIdle /\ LctIdle /\ FpInit
SpecFetchProblemsNext ==
    \/ ScanBreak
    \/ ScanFiltered
    \/ ScanNoId
    \/ ScanCollected
    \/ ScanExhausted
SpecFetchProblems == SpecFetchProblemsInit /\ [][SpecFetchProblemsNext]_vars

-----------------------------------------------------------------------------
(* Claims about the pure mappers *)

\* the three-way threshold, for a computed difficulty d
RatingContract(d) ==
    /\ (d = "easy") <=> (rating # None /\ rating[1] < 1200)
    /\ (d = "hard") <=> (rating # None /\ rating[1] > 1600)
    /\ (d = "medium") <=> (rating = None \/ (rating[1] >= 1200 /\ rating[1] <= 1600))
    /\ rating = Some(1199) => d = "easy"
    /\ rating = Some(1200) => d = "medium"
    /\ rating = Some(1600) => d = "medium"
    /\ rating = Some(1601) => d = "hard"

\* C1: for every rating r (an integer or None) map_rating returns 'easy' iff
\* r < 1200, 'hard' iff r > 1600 and 'medium' otherwise (None included);
\* 1199 -> easy, 1200 -> medium, 1600 -> medium, 1601 -> hard; and the two
\* copies of map_rating agree on every input.
C1_MapRating ==
    /\ difficulty_scraper # Unset => RatingContract(difficulty_scraper)
    /\ difficulty_api # Unset => RatingContract(difficulty_api)
    /\ (difficulty_scraper # Unset /\ difficulty_api # Unset)
            => difficulty_scraper = difficulty_api

C1_Witness ==
    /\ rating = Some(1600)
    /\ difficulty_scraper = "medium"
    /\ difficulty_api = "medium"

\* first-match-wins over an ordered rule table, stated on the table
RuleMatches(rule, tag_lower) ==
    \E i \in 1..Len(tag_lower) : tag_lower[i] \in rule.keys

FirstMatch(rules, ts) ==
    LET tag_lower == LowerAll(ts)
        hits == {i \in 1..Len(rules) : RuleMatches(rules[i], tag_lower)}
    IN  IF hits = {} THEN "Algorithm"
        ELSE rules[CHOOSE i \in hits : \A j \in hits : i <= j].category

HasTag(ts, word) == \E i \in 1..Len(ts) : Lower(ts[i]) = word

RuleOrder(rules) ==
    [i \in 1..Len(rules) |-> rules[i].category] =
        << "Dynamic Programming", "Graph Theory", "Data Structure", "Mathematics",
           "String Processing" >>

\* C9: category inference is first-match-wins over the ordered rules Dynamic
\* Programming, Graph Theory, Data Structure, Mathematics, String Processing:
\* a tag list matching several rules gets the earliest rule's category; a
\* list holding both "dp" and "graph", in any order or letter case, gets
\* 'Dynamic Programming'; rating 1600 with tags ["dp"] gets difficulty
\* 'medium' and category 'Dynamic Programming'.
C9_FirstMatchWins ==
    /\ RuleOrder(CodeforcesRules) /\ RuleOrder(LeetCodeRules)
    /\ cf_result # CfUnset =>
        /\ cf_result.category = FirstMatch(CodeforcesRules, tags)
        /\ (HasTag(tags, "dp") /\ HasTag(tags, "graph"))
                => cf_result.category = "Dynamic Programming"
        /\ (cat_rating = Some(1600) /\ tags = << "dp" >>)
                => cf_result = [difficulty |-> "medium",
                                category |-> "Dynamic Programming"]
    /\ lc_category # Unset =>
        /\ lc_category = FirstMatch(LeetCodeRules, tags)
        /\ (HasTag(tags, "dp") /\ HasTag(tags, "graph"))
                => lc_category = "Dynamic Programming"

C9_Witness ==
    /\ tags = << "Graph", "DP" >>
    /\ cat_rating = Some(1600)
    /\ cf_result = [difficulty |-> "medium", category |-> "Dynamic Programming"]
    /\ lc_category = "Dynamic Programming"

\* C10 as stated: both category mappers implement one keyword table, so they
\* return the same category for every tag list.
C10_SameCategory ==
    (cf_result # CfUnset /\ lc_category # Unset) => cf_result.category = lc_category

\* keywords that occur in one of the two tables only
AllKeys(rules) == UNION {rules[i].keys : i \in 1..Len(rules)}

OneTableOnly ==
    (AllKeys(CodeforcesRules) \ AllKeys(LeetCodeRules))
        \cup (AllKeys(LeetCodeRules) \ AllKeys(CodeforcesRules))

\* C10 amended: each mapper has its own keyword table, matched against whole
\* lower-cased tags; the two return the same category for every tag list none
\* of whose lower-cased tags is a keyword of only one table; ["tree"] and
\* ["array"] give Graph Theory and Data Structure in the LeetCode mapper but
\* Algorithm in the Codeforces mapper.
C10_SameOnSharedKeywords ==
    (cf_result # CfUnset /\ lc_category # Unset) =>
        /\ (\A i \in 1..Len(tags) : Lower(tags[i]) \notin OneTableOnly)
                => cf_result.category = lc_category
        /\ tags = << "tree" >>
                => (lc_category = "Graph Theory" /\ cf_result.category = "Algorithm")
        /\ tags = << "array" >>
                => (lc_category = "Data Structure" /\ cf_result.category = "Algorithm")

C10_Witness ==
    /\ tags = << "Math", "string" >>
    /\ cf_result # CfUnset
    /\ cf_result.category = "Mathematics"
    /\ lc_category = "Mathematics"

-----------------------------------------------------------------------------
(* Claims about the LeetCode description padding *)

\* C8: if len(text) >= 500 the description is stored unchanged; if
\* len(text) < 500 _pad_description terminates (each loop iteration starts
\* below 500 characters and adds the filler) and returns a text of length
\* >= 500 that is header + text + footer followed by the filler sentences.
C8_PadDescription ==
    LET h == PadHeader(pad_title, pad_difficulty) IN
    /\ pad_iters > 0 => Len(full_desc) < MinDescLen + Len(PadFiller)
    /\ pad_pc = "done" =>
        /\ Len(pad_content) >= 500 => description = pad_content
        /\ Len(pad_content) < 500 =>
            /\ Len(description) >= 500
            /\ SubSeq(description, 1, Len(h) + Len(pad_content) + Len(PadFooter))
                    = h \o pad_content \o PadFooter
            /\ description =
                    h \o pad_content \o PadFooter \o Repeat(PadFiller, pad_iters)

C8_Witness ==
    /\ pad_pc = "done"
    /\ Len(pad_content) = 150
    /\ pad_iters > 0
    /\ Len(description) >= 500

-----------------------------------------------------------------------------
(* Claims about CodeforcesClient *)

IsStatus(e, status) == e.kind = "status" /\ e.status = status

\* HTTP 429, HTTP status >= 500, timeout or connection error
Transient(e) ==
    \/ e.kind \in {"Timeout", "ConnectionError"}
    \/ e.kind = "status" /\ (e.status = 429 \/ e.status >= 500)

\* C4: when attempt k (from 0) ends in a transient failure the client sleeps
\* 2^k * delay_seconds, and while fewer than max_retries attempts have been
\* made the next attempt starts right after that sleep; a 429 followed by a
\* 200 returns the 200 response, the two attempts at least delay_seconds apart.
C4_BackoffThenRetry ==
    /\ \A n \in 1..Len(attempt_log) :
        Transient(attempt_log[n]) =>
            /\ attempt_log[n].sleep = Pow2(n - 1) * delay_seconds
            /\ n < max_retries =>
                IF n < Len(attempt_log)
                THEN attempt_log[n + 1].start
                        = attempt_log[n].end + attempt_log[n].sleep
                ELSE /\ fetch_pc = "request"
                     /\ attempt = n
                     /\ now = attempt_log[n].end + attempt_log[n].sleep
    /\ ( /\ Len(attempt_log) = 2
         /\ IsStatus(attempt_log[1], 429)
         /\ IsStatus(attempt_log[2], 200) ) =>
            /\ fetch_result.kind = "returned"
            /\ attempt_log[2].start - attempt_log[1].end >= delay_seconds

C4_Witness ==
    /\ Len(attempt_log) = 2
    /\ IsStatus(attempt_log[1], 429)
    /\ IsStatus(attempt_log[2], 200)
    /\ fetch_result.kind = "returned"

\* C5: an attempt that receives HTTP 404 is the last of its call: the call
\* fails at once with the not-found error, without a backoff sleep, whatever
\* the attempt number and however many retries remain.
C5_NotFoundFailsAtOnce ==
    \A n \in 1..Len(attempt_log) :
        IsStatus(attempt_log[n], 404) =>
            /\ n = Len(attempt_log)
            /\ attempt_log[n].sleep = 0
            /\ fetch_pc = "idle"
            /\ fetch_result = [kind |-> "raised", error |-> "not_found",
                               cause |-> NoException]
            /\ now = attempt_log[n].end
            /\ prev_call_end = Some(attempt_log[n].end)

C5_Witness ==
    /\ max_retries = 3
    /\ Len(attempt_log) = 2
    /\ IsStatus(attempt_log[1], 500)
    /\ IsStatus(attempt_log[2], 404)
    /\ fetch_result.error = "not_found"

\* the failure an attempt ended in
CauseOf(e) ==
    IF e.kind # "status" THEN e.kind
    ELSE IF StatusAction(e.status) = "http_error" THEN "RequestException"
    ELSE "HTTP status"

\* C6: when all max_retries attempts fail, the exhaustion error carries the
\* cause of the last failed attempt, whatever kind of failure that was.
C6_CarriesLastCause ==
    fetch_result.error = "exhausted" =>
        fetch_result.cause = CauseOf(attempt_log[Len(attempt_log)])

\* C7: the first HTTP request of a call starts at least delay_seconds after
\* the end of the previous call.
C7_GapFromPreviousEnd ==
    (prev_call_end # None /\ fetch_pc = "request" /\ attempt_log = <<>>) =>
        now - prev_call_end[1] >= delay_seconds

-----------------------------------------------------------------------------
(* Claims about the seeding main loops *)

\* documents of the collection with the given externalId
CountOf(coll, id) == Cardinality({k \in 1..Len(coll) : coll[k].externalId = id})

\* state part of C2
C2_StoredOnce ==
    /\ \A id \in ExternalIds : CountOf(problems_collection, id) <= 1
    /\ \A id \in inserted_ids : CountOf(problems_collection, id) = 1
    /\ seed_pc = "insert" => problem_data.externalId \notin inserted_ids
    /\ (last_event.id \in inserted_ids /\ last_event.existed
            /\ last_event.why \notin {"exception", "dry_run"})
                => (last_event.status = "skipped" /\ last_event.why = "exists")

\* step part of C2
C2_SecondAttemptStep ==
    /\ \A k \in 1..Len(problems_collection) :
            /\ k <= Len(problems_collection')
            /\ problems_collection'[k] = problems_collection[k]
    /\ ( /\ seed_pc = "check" /\ ~dry_run
         /\ Stored(problems_collection, problem_data.externalId)
         /\ seed_pc' = "loop" /\ last_event'.why # "exception" ) =>
            /\ last_event'.status = "skipped"
            /\ stats'.skipped = stats.skipped + 1
            /\ stats'.failed = stats.failed
            /\ problems_collection' = problems_collection

\* C2: an externalId that went through the main loop before is stored once;
\* a later attempt on it never reaches insert_problem: when the exists check
\* answers, the attempt is tallied 'skipped' and the collection is left as it
\* is; stored documents are never changed or removed.
C2_FirstWriteWins == [](C2_StoredOnce) /\ [][C2_SecondAttemptStep]_vars

C2_Witness ==
    /\ problems_collection = << [externalId |-> "1A", title |-> "Theatre Square"] >>
    /\ inserted_ids = {"1A"}
    /\ stats = [total |-> 2, success |-> 1, failed |-> 0, skipped |-> 1]
    /\ last_event = [id |-> "1A", status |-> "skipped", why |-> "exists",
                     existed |-> TRUE]

\* C3: a DuplicateKeyError in insert_problem is counted as skipped, not as
\* failed, in the run tally.
C3_DuplicateIsSkipped ==
    last_event.why = "duplicate_key" => last_event.status = "skipped"

-----------------------------------------------------------------------------
(* Claims about DataValidator *)

\* the rule a message reports, with the field for a missing-field message
RuleOf(msg) ==
    IF msg[1] \in {"Missing required field: ", "Missing: "} THEN <<"required", msg[2]>>
    ELSE IF msg[1] = "Invalid difficulty: " THEN <<"difficulty">>
    ELSE IF msg[1] = "Description too short: " THEN <<"description">>
    ELSE <<"title">>

\* the violated rules of a record, in the order (1) required fields,
\* (2) difficulty value, (3) description length, (4) title length
ViolatedRules(rec) ==
    LET req(k) == IF FieldMissing(rec, RequiredFields[k])
                  THEN << <<"required", RequiredFields[k]>> >> ELSE <<>>
    IN  req(1) \o req(2) \o req(3) \o req(4)
        \o (IF rec.difficulty # None /\ rec.difficulty[1] \notin {"easy", "medium", "hard"}
            THEN << <<"difficulty">> >> ELSE <<>>)
        \o (IF rec.description # None /\ Len(rec.description[1]) < 500
            THEN << <<"description">> >> ELSE <<>>)
        \o (IF rec.title # None /\ Len(rec.title[1]) > 200
            THEN << <<"title">> >> ELSE <<>>)

ReportsAllViolations(validation) ==
    validation # None =>
        /\ [k \in 1..Len(validation[1].errors) |-> RuleOf(validation[1].errors[k])]
                = ViolatedRules(val_record)
        /\ validation[1].valid <=> validation[1].errors = <<>>

\* C11: for every record the validator of each seeding script returns the
\* messages of all violated rules among required fields, difficulty value,
\* description length >= 500 and title length <= 200, in that order, and
\* reports valid iff there is none.
C11_AllViolations ==
    /\ ReportsAllViolations(cf_validation)
    /\ ReportsAllViolations(lc_validation)

-----------------------------------------------------------------------------
(* Claims about MarkdownConverter *)

BlankRun(lines, n) ==
    \E k \in 1..(Len(lines) - n + 1) : \A j \in k..(k + n - 1) : lines[j] = ""

\* C16: the output of convert has no line with trailing whitespace, no
\* leading or trailing blank line and no run of three or more consecutive
\* blank lines.
C16_WhitespaceNormalised ==
    markdown # Unset =>
        LET lines == Split(markdown, "\n") IN
        /\ \A k \in 1..Len(lines) : RStrip(lines[k]) = lines[k]
        /\ markdown # "" => (lines[1] # "" /\ lines[Len(lines)] # "")
        /\ ~BlankRun(lines, 3)

-----------------------------------------------------------------------------
(* Claims about ProblemParser *)

HasSampleContainer == html.layout # "none" /\ html.samples # None

\* the text a sample block contributes: its stripped pre text, "" without pre
BlockText(pre) == IF pre = None THEN "" ELSE Strip(pre[1])

\* C12: from a sample-test container with m input blocks and n output blocks
\* _extract_test_cases makes exactly min(m, n) test cases, the i-th pairing the
\* i-th input block with the i-th output block, with explanation
\* "Sample test i" (from 1); a block without a pre node gives an empty string
\* for its side and the pair is kept.
C12_PairsInOrder ==
    (parsed # None /\ HasSampleContainer
        /\ parse_fault.region \notin {"examples", "test_cases"}) =>
        LET inputs == html.samples[1].inputs
            outputs == html.samples[1].outputs
            test_cases == parsed[1].testCases
        IN  /\ Len(test_cases) = (IF Len(inputs) < Len(outputs) THEN Len(inputs)
                                  ELSE Len(outputs))
            /\ \A i \in 1..Len(test_cases) :
                test_cases[i] = [input |-> BlockText(inputs[i]),
                                 output |-> BlockText(outputs[i]),
                                 explanation |-> "Sample test " \o ToString(i)]
            /\ parsed[1].examples = test_cases

C12_Witness ==
    /\ parsed # None
    /\ parse_fault = NoFault
    /\ html.samples = Some([inputs |-> << None, Some(" 2 2 \n") >>,
                            outputs |-> << Some(" 1\n") >>])
    /\ parsed[1].testCases = << [input |-> "", output |-> "1",
                                 explanation |-> "Sample test 1"] >>

IsPrefix(a, b) == Len(a) <= Len(b) /\ a = SubSeq(b, 1, Len(a))

\* the record parse returns for the page when no extractor raises
FaultFree == parse(BuildSoup(html), parse_contest_id, parse_problem_index, NoFault)

\* every region whose extractor does not raise has its fault-free value
OthersUntouched(rec) ==
    LET clean == FaultFree
        same(region, field) == Raises(parse_fault, region) \/ rec[field] = clean[field]
    IN  /\ same("title", "title")
        /\ same("time_limit", "timeLimit")
        /\ same("memory_limit", "memoryLimit")
        /\ same("description", "description")
        /\ same("input_format", "inputFormat")
        /\ same("output_format", "outputFormat")
        /\ same("examples", "examples")
        /\ same("test_cases", "testCases")
        /\ same("tags", "tags")
        /\ same("difficulty_rating", "difficultyRating")
        /\ rec.externalId = clean.externalId

\* the regions whose node is not in the page
NoStatement == html.layout = "none"
Absent(region) ==
    CASE region = "title" -> NoStatement \/ html.title = None
      [] region = "time_limit" -> NoStatement \/ html.time_limit = None
      [] region = "memory_limit" -> NoStatement \/ html.memory_limit = None
      [] region = "description" -> NoStatement
      [] region = "input_format" -> NoStatement \/ ~html.input_spec
      [] region = "output_format" -> NoStatement \/ ~html.output_spec
      [] region \in {"examples", "test_cases"} -> NoStatement \/ html.samples = None
      [] region = "tags" -> html.tags = << >>
      [] region = "difficulty_rating" -> html.rating = None

\* the scalar regions take their default when absent or raising
ScalarDefaults(rec) ==
    LET off(region) == Absent(region) \/ Raises(parse_fault, region)
    IN  /\ off("title") => rec.title = "Problem 1A"
        /\ off("time_limit") => rec.timeLimit = 2000
        /\ off("memory_limit") => rec.memoryLimit = 256
        /\ off("description") => rec.description = ""
        /\ off("input_format") => rec.inputFormat = ""
        /\ off("output_format") => rec.outputFormat = ""
        /\ off("difficulty_rating") => rec.difficultyRating = None

\* C13 as stated: a region whose node is absent or whose extraction raises
\* takes its default (sample tests and tags: the empty list), every other
\* region keeps the value extracted from the page, and parse returns a record.
C13_RegionDefaults ==
    /\ parse_fault.region \in Regions => parsed # None
    /\ parsed # None =>
        LET rec == parsed[1]
            off(region) == Absent(region) \/ Raises(parse_fault, region)
        IN  /\ ScalarDefaults(rec)
            /\ off("examples") => rec.examples = << >>
            /\ off("test_cases") => rec.testCases = << >>
            /\ off("tags") => rec.tags = << >>
            /\ OthersUntouched(rec)

\* C13 amended: as stated for the scalar regions; the sample tests and the tags
\* are the empty list when their node is absent or the extractor raises before
\* its loop appended anything, and after a raise inside the loop they are the
\* items appended so far, a prefix of the fault-free list.
C13_DefaultsOrPrefix ==
    /\ parse_fault.region \in Regions => parsed # None
    /\ parsed # None =>
        LET rec == parsed[1]
            clean == FaultFree
            early(region) ==
                Absent(region) \/ (Raises(parse_fault, region) /\ parse_fault.after = 0)
        IN  /\ ScalarDefaults(rec)
            /\ early("examples") => rec.examples = << >>
            /\ early("test_cases") => rec.testCases = << >>
            /\ early("tags") => rec.tags = << >>
            /\ Raises(parse_fault, "examples") =>
                    (IsPrefix(rec.examples, clean.examples)
                        /\ Len(rec.examples) <= parse_fault.after)
            /\ Raises(parse_fault, "test_cases") =>
                    (IsPrefix(rec.testCases, clean.testCases)
                        /\ Len(rec.testCases) <= parse_fault.after)
            /\ Raises(parse_fault, "tags") =>
                    (IsPrefix(rec.tags, clean.tags)
                        /\ Len(rec.tags) <= parse_fault.after)
            /\ OthersUntouched(rec)

\* the memory-limit node is missing: 256, everything else as extracted
C13_Witness ==
    /\ parsed # None
    /\ parse_fault = [region |-> "tags", after |-> 1]
    /\ html = [BasePage EXCEPT !.memory_limit = None]
    /\ parsed[1].memoryLimit = 256
    /\ parsed[1].tags = << "math" >>
    /\ parsed[1].title = "Theatre Square"
    /\ parsed[1].timeLimit = 1000

\* C14: the description is made of the child blocks of the problem-statement
\* container up to the first input-specification, output-specification or
\* note section, so it holds no text of the input specification, the output
\* specification, the sample tests or the note.
C14_StopsAtSections ==
    (parsed # None /\ ~NoStatement /\ ~Raises(parse_fault, "description")) =>
        /\ html.input_spec => ~Contains(parsed[1].description, InputSpecText)
        /\ html.output_spec => ~Contains(parsed[1].description, OutputSpecText)
        /\ html.note => ~Contains(parsed[1].description, NoteText)
        /\ html.samples # None => ~Contains(parsed[1].description, "Examples")
        /\ Contains(parsed[1].description, StatementText)

\* a leading "<letter>. "
HasIndexPrefix(text) ==
    /\ Len(text) >= 3
    /\ Ch(text, 1) \in (DOMAIN UpperToLower \cup {UpperToLower[c] : c \in DOMAIN UpperToLower})
    /\ SubSeq(text, 2, 3) = ". "

\* C15: _extract_title returns the text of the title node with only a leading
\* "<letter>. " prefix removed: a text without that prefix is returned as it
\* is, also when ". " occurs further on, and a text with it loses that prefix
\* and nothing more.
C15_OnlyLeadingPrefix ==
    (parsed # None /\ ~Absent("title") /\ ~Raises(parse_fault, "title")) =>
        LET text == Strip(html.title[1])
        IN  parsed[1].title = (IF HasIndexPrefix(text) THEN SubSeq(text, 4, Len(text))
                               ELSE text)

-----------------------------------------------------------------------------
(* parse_html_content: segmentation of the converted text *)

ContentParsed == content_parsed # NotParsed
BlockCount == Cardinality(content_source.blocks)

\* the text the parser sees between the heading of block k and the next example
\* heading, the next 'Constraints:' heading or the end, written from the layout
BlockRegion(k) ==
    LET pre == content_source.layout = "pre"
        sep == IF content_source.layout = "inline" THEN "\n" ELSE "\n\n"
        open == IF pre THEN "**" ELSE "\n"
        close == IF pre THEN "\n" \o Fence ELSE ""
        follow == IF k < BlockCount
                  THEN sep \o (IF pre THEN Fence \o "\n**" ELSE "")
                  ELSE IF content_source.constraints.plural THEN ""
                  ELSE sep \o content_source.constraints.text
    IN  open \o BodyOf(content_source, k) \o close \o follow

\* the text the parser sees before the first heading
LeadingText ==
    content_source.description.text \o
    (IF content_source.layout = "pre" /\ BlockCount > 0
     THEN "\n\n" \o Fence \o "\n**" ELSE "")

\* the whole converted text of a content that has no example block
TextWithoutBlocks ==
    LET sep == IF content_source.layout = "inline" THEN "" ELSE "\n\n"
    IN  Strip(content_source.description.text \o sep \o content_source.constraints.text)

StartsWithBullet(line) == Len(line) > 0 /\ Ch(line, 1) \in BulletChars

ScenarioContent ==
    << StartTag("p"), Data("Find X"), EndTag("p"),
       Data("Example 1:\nInput: [1,2]\nOutput: 3\nConstraints:\n- 1<=n<=100") >>
ScenarioParsed ==
    [description |-> "Find X",
     examples |-> << [input |-> Some("[1,2]"), output |-> Some("3"), explanation |-> None] >>,
     constraints |-> << "1<=n<=100" >>]

\* C17 (as stated): the description is the text before the first 'Example N:' or
\* 'Constraints:' heading, every 'Example N:' block yields one example in source
\* order, the constraints are the lines of the 'Constraints:' block without their
\* leading bullets, a text with neither heading is all description, empty content
\* gives three empty fields, and the scenario content gives the scenario result.
C17_Segmentation ==
    ContentParsed =>
        /\ Len(content_parsed.examples) = BlockCount
        /\ \A k \in 1..Len(content_parsed.constraints) :
               ~StartsWithBullet(content_parsed.constraints[k])
        /\ ~content_source.constraints.plural => content_parsed.constraints = << >>
        /\ (BlockCount = 0 /\ ~content_source.constraints.plural) =>
               content_parsed.description = TextWithoutBlocks
        /\ html_content = << >> => content_parsed = NoContent
        /\ html_content = ScenarioContent => content_parsed = ScenarioParsed

\* C17 (amended): the description is the text before the first 'Example N:',
\* 'Constraints:' or 'Constraint:' heading; the examples are, in source order, those
\* of the 'Example N:' blocks that hold at least one Input/Output/Explanation label,
\* each block running to the next 'Example N:' or 'Constraints:' heading or the end;
\* the constraints are the lines between the 'Constraints:' or 'Constraint:' heading
\* and the first blank line, without leading bullets; empty content gives three
\* empty fields; and the scenario content gives the scenario result.
C17_SegmentedByHeadings ==
    ContentParsed =>
        /\ content_parsed.description = Strip(LeadingText)
        /\ content_parsed.examples =
               SelectSeq([k \in 1..BlockCount |-> ExampleOf(BlockRegion(k))],
                         NonEmptyExample)
        /\ content_parsed.constraints = content_source.constraints.lines
        /\ \A k \in 1..Len(content_parsed.constraints) :
               ~StartsWithBullet(content_parsed.constraints[k])
        /\ html_content = << >> => content_parsed = NoContent
        /\ html_content = ScenarioContent => content_parsed = ScenarioParsed

C17_Witness ==
    /\ html_content = ScenarioContent
    /\ content_parsed = ScenarioParsed

\* the labels of the sub-fields of an example
FieldLabels == {"input:", "output:", "explanation:"}

HoldsNoLabel(field) ==
    field # None => \A label \in FieldLabels : ~Contains(Lower(field[1]), label)

\* C18: every sub-field of an example runs from its label to the next label of any
\* of the three kinds or to the end of the block, so no extracted sub-field holds
\* the text of a label; a sub-field whose label is absent is left out.
C18_FieldsEndAtNextLabel ==
    ContentParsed =>
        \A k \in 1..Len(content_parsed.examples) :
            /\ HoldsNoLabel(content_parsed.examples[k].input)
            /\ HoldsNoLabel(content_parsed.examples[k].output)
            /\ HoldsNoLabel(content_parsed.examples[k].explanation)

-----------------------------------------------------------------------------
(* Seeding main loops: rejected entries and failures *)

IsNotProgramming(e) == e.type # None /\ e.type[1] # "PROGRAMMING"
LacksId(e) == e.contestId = None \/ e.index = None

\* state part of C19
C19_RejectedSkipped ==
    /\ \A e \in CodeforcesEntries :
            (IsNotProgramming(e) \/ LacksId(e)) => transform(e) = None
    /\ rejected # NoEntry =>
            /\ script = "codeforces"
            /\ transform(rejected) = None
            /\ seed_pc \in {"loop", "finished"}
            /\ problem_data = NoRecord
            /\ last_event.status = "skipped"
            /\ last_event.existed = FALSE

\* step part of C19
C19_RejectionStep ==
    (rejected' # NoEntry /\ stats' # stats) =>
        /\ seed_pc = "loop" /\ seed_pc' = "loop"
        /\ stats'.total = stats.total + 1
        /\ stats'.skipped = stats.skipped + 1
        /\ stats'.failed = stats.failed
        /\ stats'.success = stats.success
        /\ problems_collection' = problems_collection
        /\ inserted_ids' = inserted_ids

\* C19: the Codeforces transform returns None for every entry whose type is not
\* PROGRAMMING and for every entry that lacks a contest id or an index, an
\* exception in its body is turned into None as well, and main tallies every
\* entry transform returned None for as 'skipped', not 'failed', and goes on to
\* the next entry: the entry is not validated, not looked up and not inserted.
C19_RejectedIsSkipped == [](C19_RejectedSkipped) /\ [][C19_RejectionStep]_vars

C19_Witness ==
    /\ rejected.type = Some("QUESTION")
    /\ last_event.status = "skipped"
    /\ stats.skipped = 1 /\ stats.success = 1
    /\ Len(problems_collection) = 1

\* state part of C20
C20_EveryProblemTallied ==
    /\ seed_pc = "loop" => stats.total = idx /\ idx <= batch_size
    /\ seed_pc \in {"check", "insert"} => stats.total = idx - 1 /\ idx <= batch_size
    /\ seed_pc = "finished" => stats.total = batch_size /\ idx = batch_size

\* step part of C20
C20_FailureStep ==
    /\ stats'.failed = stats.failed + 1 =>
            /\ seed_pc' = "loop"
            /\ stats'.total = stats.total + 1
            /\ batch_size' = batch_size
            /\ idx' \in {idx, idx + 1}
    /\ (seed_pc \in {"loop", "check", "insert"} /\ seed_pc' \notin {"loop", "check", "insert"}) =>
            \/ seed_pc' = "interrupted"
            \/ seed_pc = "loop" /\ idx = batch_size

\* C20: in both main loops a failure while one problem is processed (no detail,
\* transform failure, validation failure, insert failure, any exception) is
\* tallied and the loop goes on with the next problem: a run that was not
\* interrupted ends only after every problem of the batch has been tallied.
C20_FailureIsolated == [](C20_EveryProblemTallied) /\ [][C20_FailureStep]_vars

C20_Witness ==
    /\ seed_pc = "finished"
    /\ batch_size = 2
    /\ stats = [total |-> 2, success |-> 1, failed |-> 1, skipped |-> 0]
    /\ last_event.status = "success"

-----------------------------------------------------------------------------
(* _retry_request: number of requests, termination, what is returned *)

\* the response of the last attempt
LastAttempt == attempt_log[Len(attempt_log)]

C28_BoundedRequests ==
    /\ Len(attempt_log) <= max_retries
    /\ fetch_pc = "request" =>
            /\ attempt = Len(attempt_log)
            /\ ENABLED (SpecFetchNext)
    /\ fetch_result.kind = "returned" =>
            /\ attempt_log # << >>
            /\ LastAttempt.kind = "status"
            /\ LastAttempt.status \notin {429, 404}
            /\ LastAttempt.status < 500
    /\ fetch_result.kind = "raised" => fetch_result.error \in {"not_found", "exhausted"}

\* every step of the call either leaves it, with a result, or starts the next
\* of the at most max_retries iterations
C28_Progress ==
    fetch_pc = "request" =>
        \/ fetch_pc' = "idle" /\ fetch_result'.kind \in {"returned", "raised"}
        \/ /\ fetch_pc' = "request"
           /\ attempt' = attempt + 1
           /\ attempt' <= max_retries
           /\ Len(attempt_log') = Len(attempt_log) + 1

\* C28: one call of _retry_request issues at most max_retries HTTP requests and
\* always ends (it can always take a step, and every step leaves the call or
\* uses up one of the max_retries iterations), either returning a response
\* whose status is none of 429, 404, 5xx or raising an error.
C28_RetryTerminates == [](C28_BoundedRequests) /\ [][C28_Progress]_vars

C28_Witness ==
    /\ max_retries = 3
    /\ Len(attempt_log) = 3
    /\ IsStatus(attempt_log[1], 429)
    /\ attempt_log[2].kind = "Timeout"
    /\ IsStatus(attempt_log[3], 200)
    /\ fetch_result.kind = "returned"

\* an attempt that ended in the handler of RequestException: a request failure
\* other than timeout and connection error, or a 4xx status other than 404 and
\* 429 that raise_for_status turned into an HTTPError
OtherRequestError(e) ==
    \/ e.kind = "RequestException"
    \/ e.kind = "status" /\ e.status >= 400 /\ e.status < 500
                         /\ e.status \notin {404, 429}

\* C29: the attempt that uses up the last of the max_retries iterations is
\* still followed by the sleep 2^(max_retries-1) * delay_seconds when it failed
\* with 429, a 5xx status, a timeout or a connection error, and the exhaustion
\* error is raised after that sleep; when it failed with any other request
\* exception there is no sleep.  Before the last iteration such an exception is
\* followed by the backoff sleep and another attempt, like a transient failure.
C29_FinalSleepByKind ==
    /\ \A n \in 1..Len(attempt_log) :
        LET e == attempt_log[n] IN
        /\ (Transient(e) /\ n = max_retries) =>
                e.sleep = Pow2(max_retries - 1) * delay_seconds
        /\ (OtherRequestError(e) /\ n = max_retries) => e.sleep = 0
        /\ (OtherRequestError(e) /\ n < max_retries) =>
                /\ e.sleep = Pow2(n - 1) * delay_seconds
                /\ \/ n < Len(attempt_log)
                   \/ fetch_pc = "request" /\ attempt = n
    /\ fetch_result.error = "exhausted" =>
            /\ Len(attempt_log) = max_retries
            /\ now = LastAttempt.end + LastAttempt.sleep

C29_Witness ==
    /\ max_retries = 2
    /\ Len(attempt_log) = 2
    /\ IsStatus(attempt_log[1], 403)
    /\ attempt_log[1].sleep = delay_seconds
    /\ attempt_log[2].kind = "Timeout"
    /\ attempt_log[2].sleep = 2 * delay_seconds
    /\ fetch_result.error = "exhausted"

-----------------------------------------------------------------------------
(* Seeding main loops: the tally *)

Counted(st) == st.success + st.skipped + st.failed

\* state part of C27
C27_TallyAddsUp ==
    /\ stats.total = Counted(stats)
    /\ seed_pc = "loop" => stats.total = idx
    /\ seed_pc \in {"check", "insert"} => stats.total = idx - 1
    /\ seed_pc = "finished" => stats.total = batch_size

\* step part of C27: a step that is not the start of a run leaves the counters
\* alone or adds one to total and to exactly one of the other three
C27_OneCounterStep ==
    (stats' # stats /\ ~(seed_pc \in {"finished", "interrupted"})) =>
        /\ stats'.total = stats.total + 1
        /\ \E counter \in {"success", "skipped", "failed"} :
            /\ stats'[counter] = stats[counter] + 1
            /\ \A other \in {"success", "skipped", "failed"} \ {counter} :
                    stats'[other] = stats[other]
        /\ last_event'.status \in {"success", "skipped", "failed"}
        /\ stats'[last_event'.status] = stats[last_event'.status] + 1

\* C27: every problem of the batch adds one to exactly one of success, skipped
\* and failed, once: after any number of problems total = success + skipped +
\* failed = the number of problems gone through, and at normal completion total
\* is the batch size.
C27_ExactlyOneCounter == [](C27_TallyAddsUp) /\ [][C27_OneCounterStep]_vars

C27_Witness ==
    /\ seed_pc = "finished"
    /\ batch_size = 2
    /\ stats = [total |-> 2, success |-> 0, failed |-> 1, skipped |-> 1]

-----------------------------------------------------------------------------
(* Claims about startup, the system user and dry runs *)

\* C21: a run whose connect raised (non-dry run) processes no problem and
\* exits with code 1; a process that exits with code 0 completed normally
\* or was interrupted by the user
C21_ConnectFailureIsFatal ==
    /\ exit_cause = "connect_failed" =>
            /\ ~run_dry
            /\ run_passed = 0 /\ run_success = 0
            /\ db_calls \subseteq {"connect"}
            /\ exit_code = Some(1)
    /\ exit_code = Some(0) => exit_cause \in {"completed", "interrupted"}

\* C22: the users collection holds at most one document per sentinel email,
\* a connect that finds it reuses it and stores nothing, and the createdBy
\* of every stored problem is the _id of the stored system user of its script
AuthorIds(sc) ==
    {users_collection[k]._id :
        k \in {j \in 1..Len(users_collection) :
                    users_collection[j].email = SentinelEmail(sc)}}

C22_OneAuthorStep ==
    (run_pc = "connect" /\ run_pc' = "loop" /\ AuthorIds(run_script) # {}) =>
        /\ users_collection' = users_collection
        /\ system_user_id' \in {Some(a) : a \in AuthorIds(run_script)}

C22_OneAuthor ==
    /\ \A sc \in Scripts :
            Cardinality({k \in 1..Len(users_collection) :
                            users_collection[k].email = SentinelEmail(sc)}) <= 1
    /\ \A k \in 1..Len(problem_docs) :
            problem_docs[k].createdBy \in AuthorIds(problem_docs[k].source)

C22_SingleStoredAuthor == [](C22_OneAuthor) /\ [][C22_OneAuthorStep]_vars

\* C25: a dry run makes no database call (no connect, no problem_exists, no
\* insert_problem, no system user looked up or created), leaves the users
\* and problems collections as they are, and tallies every problem that
\* passed transform and validation as success
C25_DryRunState ==
    run_dry => /\ db_calls = {}
               /\ system_user_id = None
               /\ run_success = run_passed

C25_DryRunStep ==
    (run_dry /\ run_pc \in {"connect", "loop"}) =>
        /\ users_collection' = users_collection
        /\ problem_docs' = problem_docs
        /\ oid_counter' = oid_counter
        /\ run_passed' # run_passed =>
                /\ run_passed' = run_passed + 1
                /\ run_success' = run_success + 1

C25_DryRunNoDbChanges == [](C25_DryRunState) /\ [][C25_DryRunStep]_vars

\* a dry run against a populated database completed with two problems tallied
C25_Witness ==
    /\ run_dry
    /\ exit_cause = "completed"
    /\ run_passed = 2 /\ run_success = 2
    /\ users_collection # <<>>
    /\ problem_docs # <<>>
    /\ db_calls = {}

-----------------------------------------------------------------------------
(* Claims about the validation gate *)

\* C23: the record handed to insert_problem has a non-empty title and
\* externalId, a difficulty in {easy, medium, hard} and a description of at
\* least 500 characters; every description the Codeforces transformer
\* generates is at least 500 characters long
Acceptable(rec) ==
    /\ rec.title # None /\ rec.title[1] # ""
    /\ rec.externalId # None /\ rec.externalId[1] # ""
    /\ rec.difficulty # None /\ rec.difficulty[1] \in {"easy", "medium", "hard"}
    /\ rec.description # None /\ Len(rec.description[1]) >= 500

C23_InsertedPassedValidator ==
    /\ gate_inserted # None => Acceptable(gate_inserted[1])
    /\ (gate_script = "codeforces" /\ gate_record # NoGateRecord) =>
            Len(gate_record.description[1]) >= 500

\* the generated description of an unrated, untagged problem passed the
\* validator and was handed to insert_problem
C23_Witness ==
    /\ gate_script = "codeforces"
    /\ gate_inserted # None
    /\ gate_inserted[1].externalId = Some("1A")
    /\ gate_inserted[1].title = Some("A")
    /\ Len(gate_inserted[1].description[1]) = 641
    /\ gate_validation[1].valid

-----------------------------------------------------------------------------
(* Claims about the detail loops *)

\* C24: at most one detail request is in flight at any time, and every
\* detail request after the first of a loop is sent at least the script's
\* delay (2 s, 1 s, delay_seconds) after the previous one ended, whether
\* the previous one succeeded or failed
C24_OneAtATimeWithDelay ==
    /\ in_flight <= 1
    /\ in_flight = 1 <=> scrape_pc = "awaiting"
    /\ (scrape_pc = "awaiting" /\ requests_made >= 2) =>
            last_gap >= ScriptDelay(scrape_script)

\* the second request of scrape_codeforces_full is in flight exactly 2 s
\* after the first one failed
C24_Witness ==
    /\ scrape_script = "scrape_codeforces_full"
    /\ scrape_pc = "awaiting"
    /\ requests_made = 2
    /\ prev_failed
    /\ last_gap = 2

-----------------------------------------------------------------------------
(* Claims about the LeetCode transformer *)

\* C26: in every record transform returns, examples is the first min(3, n)
\* entries of visibleTestCases in order (n = the number of parsed test
\* cases, all of which are in visibleTestCases), hiddenTestCases is empty,
\* isPublic and isActive are true and isVerified is false
C26_ExamplesPrefix ==
    (lct_called /\ lct_result # None) =>
        LET rec == lct_result[1]
            n == Len(rec.visibleTestCases)
        IN  /\ rec.visibleTestCases = _parse_test_cases(lct_detail.exampleTestcases)
            /\ Len(rec.examples) = (IF n < 3 THEN n ELSE 3)
            /\ \A k \in 1..Len(rec.examples) : rec.examples[k] = rec.visibleTestCases[k]
            /\ rec.hiddenTestCases = <<>>
            /\ rec.isPublic = TRUE
            /\ rec.isActive = TRUE
            /\ rec.isVerified = FALSE

\* a detail with four input/output pairs: three examples, four visible cases
C26_Witness ==
    /\ lct_called
    /\ lct_result # None
    /\ Len(lct_result[1].visibleTestCases) = 4
    /\ Len(lct_result[1].examples) = 3
    /\ lct_result[1].examples[3] =
            [input |-> "[5,6]", output |-> "6", explanation |-> "Example 3"]

-----------------------------------------------------------------------------
(* Claims about fetch_problems *)

\* the fetched list is in list order, each entry built from its list entry
\* and carrying a contest id and an index
FetchedInListOrder ==
    /\ Len(fp_positions) = Len(fp_fetched)
    /\ \A k \in 1..Len(fp_fetched) :
        /\ fp_positions[k] \in 1..fp_pos
        /\ k > 1 => fp_positions[k - 1] < fp_positions[k]
        /\ Some(fp_fetched[k]) = process_problem(fp_problems[fp_positions[k]])
        /\ fp_fetched[k].contestId # 0 /\ fp_fetched[k].index # ""

\* the loop examines nothing beyond the entry that completed the limit
StopsAtLimit ==
    /\ fp_limit <= 0 => fp_pos = 0
    /\ (fp_pc = "returned" /\ fp_limit > 0 /\ Len(fp_fetched) = fp_limit) =>
            fp_pos = fp_positions[fp_limit]

\* every fetched problem passes the rating and tag filters that are in force
PassesFilters(has_min, has_max, has_tags) ==
    \A k \in 1..Len(fp_fetched) :
        LET p == fp_fetched[k] IN
        /\ has_min => p.rating # None /\ fp_min_rating[1] <= p.rating[1]
        /\ has_max => p.rating # None /\ p.rating[1] <= fp_max_rating[1]
        /\ has_tags => \E i \in 1..Len(fp_tags[1]), j \in 1..Len(p.tags) :
                            fp_tags[1][i] = p.tags[j]

TagsRequested == fp_tags # None /\ fp_tags[1] # <<>>

\* C30 as stated: at most limit problems, in list order, each with contest
\* id and index, each within every rating bound passed (so rated) and with
\* one of the requested tags; the scan stops once limit problems are
\* collected
C30_FetchedWithinFilters ==
    /\ Len(fp_fetched) <= fp_limit
    /\ FetchedInListOrder
    /\ PassesFilters(fp_min_rating # None, fp_max_rating # None, TagsRequested)
    /\ StopsAtLimit

\* C30 (amended): at most limit problems, none for a limit below 1, and a
\* rating bound of None or 0 is not in force; the rest as stated
C30_FetchedWithinTruthyFilters ==
    /\ Len(fp_fetched) <= (IF fp_limit < 0 THEN 0 ELSE fp_limit)
    /\ FetchedInListOrder
    /\ PassesFilters(Truthy(fp_min_rating), Truthy(fp_max_rating), TagsRequested)
    /\ StopsAtLimit

\* limit 1, min_rating 1200, tags dp and math, a list of three problems that
\* starts with an unrated one: the scan returned 2B and left the third unread
C30_Witness ==
    /\ fp_pc = "returned"
    /\ fp_limit = 1
    /\ fp_min_rating = Some(1200) /\ fp_max_rating = None
    /\ fp_tags = Some(<<"dp", "math">>)
    /\ Len(fp_problems) = 3
    /\ fp_problems[1].rating = None
    /\ fp_positions = <<2>>
    /\ fp_fetched[1].contestId = 2
    /\ fp_pos = 2

====
